---- MODULE Spec2Model ----
(***************************************************************************)
(* Model of PokerGameEngine (src/lib/game-engine.ts): the betting / turn   *)
(* state machine of a Texas Hold'em table, its settlement and side pots.   *)
(*                                                                         *)
(* The engine's GameState object is the variable gameState.  Seat indices  *)
(* (dealerPosition, activePlayerIndex) are 0-based as in the source; the   *)
(* player at index i is gameState.players[i + 1].  Cards are abstracted:   *)
(* the deck and the card lists are modelled by their lengths, and the      *)
(* values evaluateHand gives to the players' seven cards (fixed by the     *)
(* shuffle) are the variable evals, drawn when the first showdown of the   *)
(* hand looks at them.                                                     *)
(*                                                                         *)
(* History variables: call is the last call that was rejected or changed   *)
(* the state and its outcome; exec is the state right after executeAction  *)
(* and the bookkeeping of an accepted action, before completion and turn   *)
(* advance; settle is the roster and pot on entry to completeHand and the  *)
(* uncalled bet it refunded, when the last call settled the hand.          *)
(***************************************************************************)
EXTENDS Integers, Sequences, FiniteSets, TLC

VARIABLES gameState, evals, call, exec, settle

vars == <<gameState, evals, call, exec, settle>>

(* ------------------------------ bounds -------------------------------- *)
MaxPlayers == 3
MaxChips == 3
MaxAmount == 6
MaxValue == 2
MaxHands == 2

(* blind levels the table may be created with (constructor arguments)     *)
BlindLevels == { [small |-> 1, big |-> 2], [small |-> 2, big |-> 4] }

DeckSize == 4 * 13

PlayerIds == 1..MaxPlayers
UnknownId == MaxPlayers + 1

NoEvals == <<>>
NoSettle == [done |-> FALSE]
NoExec == [done |-> FALSE]
NoAction == [type |-> "none", amount |-> 0]

(* ------------------------------ helpers ------------------------------- *)
Min(a, b) == IF a < b THEN a ELSE b
Max(a, b) == IF a > b THEN a ELSE b

RECURSIVE SumSeq(_)
SumSeq(s) == IF s = <<>> THEN 0 ELSE Head(s) + SumSeq(Tail(s))

MapSeq(s, F(_)) == [i \in 1..Len(s) |-> F(s[i])]

(* 1-based indices of the players satisfying Test, in seating order        *)
IdxWhere(ps, Test(_)) ==
    SelectSeq([i \in 1..Len(ps) |-> i], LAMBDA i : Test(ps[i]))

SeqToSet(s) == { s[i] : i \in 1..Len(s) }

SumChips(ps) == SumSeq(MapSeq(ps, LAMBDA p : p.chips))
SumTotalBet(ps) == SumSeq(MapSeq(ps, LAMBDA p : p.totalBet))
SumAmount(ws) == SumSeq(MapSeq(ws, LAMBDA w : w.amount))

(* the engine's state inside the working record of a call                  *)
StateOf(m) ==
    [handNumber |-> m.handNumber,
     players |-> m.players,
     dealerPosition |-> m.dealerPosition,
     deck |-> m.deck,
     communityCards |-> m.communityCards,
     currentBettingRound |-> m.currentBettingRound,
     currentBet |-> m.currentBet,
     lastRaiseSize |-> m.lastRaiseSize,
     pot |-> m.pot,
     sidePots |-> m.sidePots,
     blinds |-> m.blinds,
     activePlayerIndex |-> m.activePlayerIndex,
     lastAction |-> m.lastAction,
     isHandComplete |-> m.isHandComplete,
     winners |-> m.winners]

(* working record of a call: the state, the evaluations of the deck in     *)
(* play, and the record of the settlement the call performs (if any)       *)
Working(gs, ev) ==
    [handNumber |-> gs.handNumber,
     players |-> gs.players,
     dealerPosition |-> gs.dealerPosition,
     deck |-> gs.deck,
     communityCards |-> gs.communityCards,
     currentBettingRound |-> gs.currentBettingRound,
     currentBet |-> gs.currentBet,
     lastRaiseSize |-> gs.lastRaiseSize,
     pot |-> gs.pot,
     sidePots |-> gs.sidePots,
     blinds |-> gs.blinds,
     activePlayerIndex |-> gs.activePlayerIndex,
     lastAction |-> gs.lastAction,
     isHandComplete |-> gs.isHandComplete,
     winners |-> gs.winners,
     ev |-> ev,
     showdown |-> FALSE,
     settle |-> [done |-> FALSE, first |-> FALSE, players |-> <<>>,
                 pot |-> 0, refund |-> 0]]

(* ------------------------- utility functions -------------------------- *)
findPlayerById(m, playerId) ==
    IdxWhere(m.players, LAMBDA p : p.id = playerId)

isPlayersTurn(m, playerId) ==
    /\ m.activePlayerIndex + 1 \in 1..Len(m.players)
    /\ m.players[m.activePlayerIndex + 1].id = playerId

getCallAmount(m, player) == Max(0, m.currentBet - player.currentBet)

getActivePlayers(m) == IdxWhere(m.players, LAMBDA p : ~p.disconnected)

getPlayersStillInHand(m) ==
    IdxWhere(m.players, LAMBDA p : ~p.disconnected /\ ~p.isFolded)

playersWhoCanAct(m) ==
    IdxWhere(m.players, LAMBDA p : ~p.disconnected /\ ~p.isFolded /\ ~p.isAllIn)

(* --------------------------- hand start ------------------------------- *)
setupPlayers(stacks) ==
    [i \in 1..Len(stacks) |->
        [id |-> i, chips |-> stacks[i], holeCards |-> 0,
         currentBet |-> 0, totalBet |-> 0,
         isDealer |-> (i - 1 = 0), isSmallBlind |-> FALSE, isBigBlind |-> FALSE,
         hasActed |-> FALSE, isFolded |-> FALSE, isAllIn |-> FALSE,
         disconnected |-> FALSE]]

resetHandState(m) ==
    [m EXCEPT
        !.communityCards = 0,
        !.currentBettingRound = "preflop",
        !.currentBet = m.blinds.big,
        !.lastRaiseSize = m.blinds.big,
        !.pot = 0,
        !.sidePots = <<>>,
        !.isHandComplete = FALSE,
        !.winners = <<>>,
        !.lastAction = NoAction,
        !.players = [i \in 1..Len(m.players) |->
            [m.players[i] EXCEPT
                !.holeCards = 0, !.currentBet = 0, !.totalBet = 0,
                !.hasActed = FALSE, !.isFolded = FALSE, !.isAllIn = FALSE,
                !.isDealer = (i - 1 = m.dealerPosition),
                !.isSmallBlind = FALSE, !.isBigBlind = FALSE]]]

dealCards(m, count) == [m EXCEPT !.deck = m.deck - count]

dealHoleCards(m) ==
    LET active == getActivePlayers(m)
        m1 == dealCards(m, 2 * Len(active))
    IN [m1 EXCEPT !.players = [i \in 1..Len(m.players) |->
            IF i \in SeqToSet(active)
            THEN [m.players[i] EXCEPT !.holeCards = 2]
            ELSE m.players[i]]]

postBlindsThrows(m) == Len(getActivePlayers(m)) < 2

(* postBlinds that leaves the small blind out of the pot                    *)
postBlinds_SmallBlindNotInPot(m) ==
    LET active == getActivePlayers(m)
        n == Len(active)
        sbI == active[((m.dealerPosition + 1) % n) + 1]
        bbI == active[((m.dealerPosition + 2) % n) + 1]
        sbAmount == Min(m.blinds.small, m.players[sbI].chips)
        ps1 == [m.players EXCEPT
                   ![sbI].isSmallBlind = TRUE,
                   ![sbI].chips = @ - sbAmount,
                   ![sbI].currentBet = sbAmount,
                   ![sbI].totalBet = sbAmount]
        bbAmount == Min(m.blinds.big, ps1[bbI].chips)
        ps2 == [ps1 EXCEPT
                   ![bbI].isBigBlind = TRUE,
                   ![bbI].chips = @ - bbAmount,
                   ![bbI].currentBet = bbAmount,
                   ![bbI].totalBet = bbAmount]
        ps3 == [ps2 EXCEPT ![sbI].isAllIn = (@ \/ ps2[sbI].chips = 0)]
        ps4 == [ps3 EXCEPT ![bbI].isAllIn = (@ \/ ps3[bbI].chips = 0)]
    IN [m EXCEPT
           !.players = ps4,
           !.pot = m.pot + bbAmount,
           !.currentBet = bbAmount,
           !.lastRaiseSize = bbAmount]

postBlinds(m) ==
    LET active == getActivePlayers(m)
        n == Len(active)
        sbI == active[((m.dealerPosition + 1) % n) + 1]
        bbI == active[((m.dealerPosition + 2) % n) + 1]
        sbAmount == Min(m.blinds.small, m.players[sbI].chips)
        ps1 == [m.players EXCEPT
                   ![sbI].isSmallBlind = TRUE,
                   ![sbI].chips = @ - sbAmount,
                   ![sbI].currentBet = sbAmount,
                   ![sbI].totalBet = sbAmount]
        bbAmount == Min(m.blinds.big, ps1[bbI].chips)
        ps2 == [ps1 EXCEPT
                   ![bbI].isBigBlind = TRUE,
                   ![bbI].chips = @ - bbAmount,
                   ![bbI].currentBet = bbAmount,
                   ![bbI].totalBet = bbAmount]
        ps3 == [ps2 EXCEPT ![sbI].isAllIn = (@ \/ ps2[sbI].chips = 0)]
        ps4 == [ps3 EXCEPT ![bbI].isAllIn = (@ \/ ps3[bbI].chips = 0)]
    IN [m EXCEPT
           !.players = ps4,
           !.pot = m.pot + sbAmount + bbAmount,
           !.currentBet = bbAmount,
           !.lastRaiseSize = bbAmount]

(* the seat reached from idx after `seen` more connected seats were met    *)
RECURSIVE bigBlindSeat(_, _, _)
bigBlindSeat(ps, idx, seen) ==
    IF seen >= 2 THEN idx
    ELSE LET nxt == (idx + 1) % Len(ps)
         IN bigBlindSeat(ps, nxt, IF ~ps[nxt + 1].disconnected THEN seen + 1 ELSE seen)

(* the scan for the first player to act starts after the small blind      *)
setFirstPlayerToAct_FromSmallBlind(m) ==
    LET ps == m.players
        dealerIndex == m.dealerPosition
        activeCount == Len(getActivePlayers(m))
    IN IF activeCount = 2
       THEN [m EXCEPT !.activePlayerIndex = dealerIndex]
       ELSE LET idx == bigBlindSeat(ps, dealerIndex, 1)
                ok == { step \in 1..Len(ps) :
                          LET p == ps[((idx + step) % Len(ps)) + 1]
                          IN ~p.disconnected /\ ~p.isAllIn /\ ~p.isFolded }
            IN IF ok # {}
               THEN [m EXCEPT !.activePlayerIndex =
                        (idx + (CHOOSE s \in ok : \A t \in ok : s <= t)) % Len(ps)]
               ELSE [m EXCEPT !.activePlayerIndex = dealerIndex]

setFirstPlayerToAct(m) ==
    LET ps == m.players
        dealerIndex == m.dealerPosition
        activeCount == Len(getActivePlayers(m))
    IN IF activeCount = 2
       THEN [m EXCEPT !.activePlayerIndex = dealerIndex]
       ELSE LET idx == bigBlindSeat(ps, dealerIndex, 0)
                ok == { step \in 1..Len(ps) :
                          LET p == ps[((idx + step) % Len(ps)) + 1]
                          IN ~p.disconnected /\ ~p.isAllIn /\ ~p.isFolded }
            IN IF ok # {}
               THEN [m EXCEPT !.activePlayerIndex =
                        (idx + (CHOOSE s \in ok : \A t \in ok : s <= t)) % Len(ps)]
               ELSE [m EXCEPT !.activePlayerIndex = dealerIndex]

startNewHand(m) ==
    CHOOSE out \in { IF postBlindsThrows(dealt) THEN dealt
                      ELSE CHOOSE q \in { setFirstPlayerToAct(posted) :
                                            posted \in {postBlinds(dealt)} } : TRUE :
                      dealt \in { dealHoleCards([reset EXCEPT !.deck = DeckSize]) :
                                    reset \in {resetHandState(m)} } } : TRUE

(* ------------------------ validation / execution ---------------------- *)
(* the error validateAction throws for the player at 1-based index i, or   *)
(* "ok" when it returns normally                                           *)
validateAction(m, i, action) ==
    LET player == m.players[i]
        callAmount == getCallAmount(m, player)
    IN IF player.isFolded THEN "PlayerAlreadyFolded"
       ELSE IF player.isAllIn THEN "PlayerAlreadyAllIn"
       ELSE CASE action.type = "fold" -> "ok"
              [] action.type = "check" ->
                    IF callAmount > 0 THEN "CannotCheckFacingABet" ELSE "ok"
              [] action.type = "call" ->
                    IF callAmount = 0 THEN "NothingToCall"
                    ELSE IF player.chips < callAmount THEN "NotEnoughChipsToCall"
                    ELSE "ok"
              [] action.type = "bet" ->
                    IF m.currentBet > 0 THEN "CannotBetFacingABet"
                    ELSE IF action.amount < m.blinds.big THEN "BelowMinimumBet"
                    ELSE IF player.chips < action.amount THEN "NotEnoughChipsToBet"
                    ELSE "ok"
              [] action.type = "raise" ->
                    IF m.currentBet = 0 THEN "NothingToRaise"
                    ELSE IF action.amount < m.currentBet + m.lastRaiseSize
                         THEN "BelowMinimumRaise"
                    ELSE IF player.chips < action.amount THEN "NotEnoughChipsToRaise"
                    ELSE "ok"
              [] action.type = "all-in" ->
                    IF player.chips = 0 THEN "PlayerHasNoChips" ELSE "ok"

(* resetOthersHasActed that clears nothing                                 *)
resetOthersHasActed_ClearsNothing(m, excludePlayerId) == m

resetOthersHasActed(m, excludePlayerId) ==
    [m EXCEPT !.players = [j \in 1..Len(m.players) |->
        LET p == m.players[j]
        IN IF p.id # excludePlayerId /\ ~p.isFolded /\ ~p.isAllIn /\ ~p.disconnected
           THEN [p EXCEPT !.hasActed = FALSE]
           ELSE p]]

executeAction(m, i, action) ==
    LET player == m.players[i]
    IN CASE action.type = "fold" ->
              [m EXCEPT !.players[i].isFolded = TRUE]
         [] action.type = "check" -> m
         [] action.type = "call" ->
              LET callAmount == getCallAmount(m, player)
              IN [m EXCEPT
                     !.players[i].chips = @ - callAmount,
                     !.players[i].currentBet = m.currentBet,
                     !.players[i].totalBet = @ + callAmount,
                     !.players[i].isAllIn = (@ \/ player.chips - callAmount = 0),
                     !.pot = @ + callAmount]
         [] action.type = "bet" ->
              LET betDelta == action.amount - player.currentBet
                  m1 == [m EXCEPT
                            !.players[i].chips = @ - betDelta,
                            !.players[i].currentBet = action.amount,
                            !.players[i].totalBet = @ + betDelta,
                            !.currentBet = action.amount,
                            !.pot = @ + betDelta,
                            !.lastRaiseSize = action.amount]
                  m2 == resetOthersHasActed(m1, player.id)
              IN [m2 EXCEPT !.players[i].isAllIn = (@ \/ m2.players[i].chips = 0)]
         [] action.type = "raise" ->
              LET raiseDelta == action.amount - player.currentBet
                  previousHighest == m.currentBet
                  m1 == [m EXCEPT
                            !.players[i].chips = @ - raiseDelta,
                            !.players[i].currentBet = action.amount,
                            !.players[i].totalBet = @ + raiseDelta,
                            !.lastRaiseSize = action.amount - previousHighest,
                            !.currentBet = action.amount,
                            !.pot = @ + raiseDelta]
                  m2 == resetOthersHasActed(m1, player.id)
              IN [m2 EXCEPT !.players[i].isAllIn = (@ \/ m2.players[i].chips = 0)]
         [] action.type = "all-in" ->
              LET allInAmount == player.chips
                  newTotal == player.currentBet + allInAmount
                  m1 == [m EXCEPT
                            !.players[i].chips = 0,
                            !.players[i].totalBet = @ + allInAmount,
                            !.players[i].currentBet = newTotal,
                            !.players[i].isAllIn = TRUE,
                            !.pot = @ + allInAmount]
              IN IF newTotal > m.currentBet
                 THEN LET raiseAmount == newTotal - m.currentBet
                          m2 == [m1 EXCEPT
                                    !.lastRaiseSize =
                                        IF raiseAmount >= m.lastRaiseSize
                                        THEN raiseAmount ELSE @,
                                    !.currentBet = newTotal]
                      IN resetOthersHasActed(m2, player.id)
                 ELSE m1

(* ------------------------------ turn order ---------------------------- *)
(* isBettingRoundComplete that only compares the bets                      *)
isBettingRoundComplete_IgnoresHasActed(m) ==
    LET inHand == getPlayersStillInHand(m)
        canAct == playersWhoCanAct(m)
    IN IF Len(inHand) <= 1 THEN TRUE
       ELSE IF Len(canAct) = 0 THEN TRUE
       ELSE \A k \in 1..Len(canAct) : m.players[canAct[k]].currentBet = m.currentBet

isBettingRoundComplete(m) ==
    LET inHand == getPlayersStillInHand(m)
        canAct == playersWhoCanAct(m)
    IN IF Len(inHand) <= 1 THEN TRUE
       ELSE IF Len(canAct) = 0 THEN TRUE
       ELSE /\ \A k \in 1..Len(canAct) : m.players[canAct[k]].hasActed
            /\ \A k \in 1..Len(canAct) : m.players[canAct[k]].currentBet = m.currentBet

RECURSIVE nextEligible(_, _)
nextEligible(ps, idx) ==
    LET nxt == (idx + 1) % Len(ps)
        p == ps[nxt + 1]
    IN IF p.isFolded \/ p.isAllIn \/ p.disconnected
       THEN nextEligible(ps, nxt)
       ELSE nxt

advanceToNextPlayer(m) ==
    IF Len(playersWhoCanAct(m)) = 0 THEN m
    ELSE [m EXCEPT !.activePlayerIndex = nextEligible(m.players, m.activePlayerIndex)]

(* the scan for the first player to act starts at the dealer's own seat    *)
setFirstPlayerPostFlop_StartsAtDealer(m) ==
    LET activePlayers == playersWhoCanAct(m)
        dealerPos == m.dealerPosition
        ok == { i \in 0..Len(activePlayers) :
                  LET p == m.players[((dealerPos + i) % Len(m.players)) + 1]
                  IN ~p.isFolded /\ ~p.isAllIn }
    IN IF Len(activePlayers) = 0 THEN m
       ELSE IF ok # {}
       THEN [m EXCEPT !.activePlayerIndex =
                (dealerPos + (CHOOSE i \in ok : \A j \in ok : i <= j)) % Len(m.players)]
       ELSE [m EXCEPT !.activePlayerIndex = dealerPos]

setFirstPlayerPostFlop(m) ==
    LET activePlayers == playersWhoCanAct(m)
        dealerPos == m.dealerPosition
        ok == { i \in 1..Len(activePlayers) :
                  LET p == m.players[((dealerPos + i) % Len(m.players)) + 1]
                  IN ~p.isFolded /\ ~p.isAllIn }
    IN IF Len(activePlayers) = 0 THEN m
       ELSE IF ok # {}
       THEN [m EXCEPT !.activePlayerIndex =
                (dealerPos + (CHOOSE i \in ok : \A j \in ok : i <= j)) % Len(m.players)]
       ELSE [m EXCEPT !.activePlayerIndex = dealerPos]

(* ------------------------------ settlement ---------------------------- *)
RECURSIVE SortAsc(_)
SortAsc(S) ==
    IF S = {} THEN <<>>
    ELSE LET lo == CHOOSE x \in S : \A y \in S : x <= y
         IN <<lo>> \o SortAsc(S \ {lo})

(* the loop of calculateSidePots over the contribution levels             *)
RECURSIVE sidePotLayers(_, _, _, _, _)
sidePotLayers(allPlayers, inHand, levels, prevLevel, sidePots) ==
    IF levels = <<>> THEN sidePots
    ELSE LET level == Head(levels)
             layerSize == level - prevLevel
             contributorsCount ==
                 Len(IdxWhere(allPlayers, LAMBDA p : p.totalBet >= level))
             amount == layerSize * contributorsCount
             eligibleIds ==
                 SelectSeq(MapSeq(inHand, LAMBDA k : allPlayers[k]),
                           LAMBDA p : p.totalBet >= level)
         IN IF layerSize <= 0
            THEN sidePotLayers(allPlayers, inHand, Tail(levels), prevLevel, sidePots)
            ELSE IF contributorsCount <= 1
            THEN sidePotLayers(allPlayers, inHand, Tail(levels), level, sidePots)
            ELSE IF amount > 0 /\ Len(eligibleIds) > 0
            THEN CHOOSE out \in { sidePotLayers(allPlayers, inHand, Tail(levels), level, pushed) :
                    pushed \in {Append(sidePots,
                        [amount |-> amount,
                         eligiblePlayers |-> MapSeq(eligibleIds, LAMBDA p : p.id),
                         isMain |-> (Len(sidePots) = 0)])} } : TRUE
            ELSE sidePotLayers(allPlayers, inHand, Tail(levels), level, sidePots)

(* index of the first player holding the maximum totalBet                  *)
highestContributor(ps) ==
    CHOOSE i \in 1..Len(ps) :
        /\ \A j \in 1..Len(ps) : ps[j].totalBet <= ps[i].totalBet
        /\ \A j \in 1..(i - 1) : ps[j].totalBet < ps[i].totalBet

(* calculateSidePots that refunds the uncalled bet and leaves it in pot    *)
calculateSidePots_KeepsRefundInPot(m, inHand) ==
    LET allPlayers == m.players
        levels == SortAsc({ allPlayers[i].totalBet : i \in 1..Len(allPlayers) })
        sidePots == sidePotLayers(allPlayers, inHand, levels, 0, <<>>)
        computedTotal == SumAmount(sidePots)
        potDiff == m.pot - computedTotal
    IN IF potDiff > 0
       THEN LET hi == highestContributor(allPlayers)
                topCount == Len(IdxWhere(allPlayers,
                              LAMBDA p : p.totalBet = allPlayers[hi].totalBet))
            IN IF topCount = 1
               THEN [m EXCEPT
                        !.players[hi].chips = @ + potDiff,
                        !.settle.refund = @ + potDiff,
                        !.sidePots = sidePots]
               ELSE IF Len(sidePots) = 0
               THEN [m EXCEPT !.sidePots =
                        <<[amount |-> potDiff,
                           eligiblePlayers |-> MapSeq(inHand, LAMBDA k : allPlayers[k].id),
                           isMain |-> TRUE]>>]
               ELSE [m EXCEPT !.sidePots =
                        [sidePots EXCEPT ![Len(sidePots)].amount = @ + potDiff]]
       ELSE [m EXCEPT !.sidePots = sidePots]

calculateSidePots(m, inHand) ==
    LET allPlayers == m.players
        levels == SortAsc({ allPlayers[i].totalBet : i \in 1..Len(allPlayers) })
        sidePots == sidePotLayers(allPlayers, inHand, levels, 0, <<>>)
        computedTotal == SumAmount(sidePots)
        potDiff == m.pot - computedTotal
    IN IF potDiff > 0
       THEN LET hi == highestContributor(allPlayers)
                topCount == Len(IdxWhere(allPlayers,
                              LAMBDA p : p.totalBet = allPlayers[hi].totalBet))
            IN IF topCount = 1
               THEN [m EXCEPT
                        !.players[hi].chips = @ + potDiff,
                        !.pot = @ - potDiff,
                        !.settle.refund = @ + potDiff,
                        !.sidePots = sidePots]
               ELSE IF Len(sidePots) = 0
               THEN [m EXCEPT !.sidePots =
                        <<[amount |-> potDiff,
                           eligiblePlayers |-> MapSeq(inHand, LAMBDA k : allPlayers[k].id),
                           isMain |-> TRUE]>>]
               ELSE [m EXCEPT !.sidePots =
                        [sidePots EXCEPT ![Len(sidePots)].amount = @ + potDiff]]
       ELSE [m EXCEPT !.sidePots = sidePots]

(* findWinners that keeps only the first hand of maximum value             *)
findWinners_FirstOnly(m, cand) ==
    SubSeq(SelectSeq(cand, LAMBDA k :
              \A j \in 1..Len(cand) :
                  m.ev[m.players[cand[j]].id] <= m.ev[m.players[k].id]), 1, 1)

(* findWinners of hand-evaluator.ts on the evaluations of the players at   *)
(* the 1-based indices cand: those whose value is the maximum              *)
findWinners(m, cand) ==
    SelectSeq(cand, LAMBDA k :
        \A j \in 1..Len(cand) :
            m.ev[m.players[cand[j]].id] <= m.ev[m.players[k].id])

(* aggregate[id] = (aggregate[id] || 0) + payout, keys in insertion order  *)
addToAggregate(agg, id, payout) ==
    IF \E k \in 1..Len(agg) : agg[k].playerId = id
    THEN [k \in 1..Len(agg) |->
            IF agg[k].playerId = id
            THEN [agg[k] EXCEPT !.amount = @ + payout] ELSE agg[k]]
    ELSE Append(agg, [playerId |-> id, amount |-> payout])

(* the equal share without the remainder chips                             *)
payoutOf_DropsRemainder(amount, nWinners, idx) == amount \div nWinners

payoutOf(amount, nWinners, idx) ==
    LET base == amount \div nWinners
        remainder == amount - base * nWinners
    IN base + (IF idx = 1 THEN remainder ELSE 0)

RECURSIVE payWinners(_, _, _, _, _)
payWinners(ps, agg, amount, winners, idx) ==
    IF idx > Len(winners) THEN [players |-> ps, aggregate |-> agg]
    ELSE LET w == winners[idx]
             payout == payoutOf(amount, Len(winners), idx)
         IN CHOOSE out \in { payWinners(paid, added, amount, winners, idx + 1) :
                              paid \in {[ps EXCEPT ![w].chips = @ + payout]},
                              added \in {addToAggregate(agg, ps[w].id, payout)} } : TRUE

RECURSIVE awardLoop(_, _, _, _)
awardLoop(m, inHand, pots, acc) ==
    IF pots = <<>> THEN acc
    ELSE LET sidePot == Head(pots)
             eligible == SelectSeq(inHand, LAMBDA k :
                            m.players[k].id \in SeqToSet(sidePot.eligiblePlayers))
             winnerIndices == findWinners(m, eligible)
         IN CHOOSE out \in { awardLoop(m, inHand, Tail(pots), awarded) :
                  awarded \in {payWinners(acc.players, acc.aggregate, sidePot.amount,
                                          winnerIndices, 1)} } : TRUE

awardPots(m, inHand) ==
    LET r == awardLoop(m, inHand, m.sidePots,
                       [players |-> m.players, aggregate |-> <<>>])
    IN [m EXCEPT !.players = r.players, !.winners = r.aggregate]

evaluateShowdown(m) ==
    LET inHand == getPlayersStillInHand(m)
        distinct == { m.players[i].totalBet : i \in 1..Len(m.players) }
        m0 == [m EXCEPT !.showdown = TRUE]
        m1 == IF Cardinality(distinct) > 1
              THEN calculateSidePots(m0, inHand)
              ELSE [m0 EXCEPT !.sidePots =
                       <<[amount |-> m.pot,
                          eligiblePlayers |-> MapSeq(inHand, LAMBDA k : m.players[k].id),
                          isMain |-> TRUE]>>]
    IN CHOOSE out \in { awardPots(pots, inHand) : pots \in {m1} } : TRUE

(* the search for the next dealer starts at the current dealer's seat      *)
prepareNextHand_ButtonStaysIfSolvent(m) ==
    LET originalPlayers == m.players
        n == Len(originalPlayers)
        nextIndexOriginal == m.dealerPosition % n
        withChips == { i \in 0..(n - 1) :
                         originalPlayers[((nextIndexOriginal + i) % n) + 1].chips > 0 }
        remaining == SelectSeq(originalPlayers, LAMBDA p : p.chips > 0)
    IN IF Len(remaining) = 0
       THEN [m EXCEPT !.players = remaining, !.dealerPosition = 0,
                      !.handNumber = @ + 1]
       ELSE LET first == CHOOSE i \in withChips : \A j \in withChips : i <= j
                nextDealerId == originalPlayers[((nextIndexOriginal + first) % n) + 1].id
                newDealerIndex ==
                    (CHOOSE k \in 1..Len(remaining) : remaining[k].id = nextDealerId) - 1
            IN [m EXCEPT !.players = remaining,
                         !.dealerPosition = newDealerIndex,
                         !.handNumber = @ + 1]

prepareNextHand(m) ==
    LET originalPlayers == m.players
        n == Len(originalPlayers)
        nextIndexOriginal == (m.dealerPosition + 1) % n
        withChips == { i \in 0..(n - 1) :
                         originalPlayers[((nextIndexOriginal + i) % n) + 1].chips > 0 }
        remaining == SelectSeq(originalPlayers, LAMBDA p : p.chips > 0)
    IN IF Len(remaining) = 0
       THEN [m EXCEPT !.players = remaining, !.dealerPosition = 0,
                      !.handNumber = @ + 1]
       ELSE LET first == CHOOSE i \in withChips : \A j \in withChips : i <= j
                nextDealerId == originalPlayers[((nextIndexOriginal + first) % n) + 1].id
                newDealerIndex ==
                    (CHOOSE k \in 1..Len(remaining) : remaining[k].id = nextDealerId) - 1
            IN [m EXCEPT !.players = remaining,
                         !.dealerPosition = newDealerIndex,
                         !.handNumber = @ + 1]

completeHand(m) ==
    LET m1 == [m EXCEPT
                  !.isHandComplete = TRUE,
                  !.settle = [done |-> TRUE, first |-> ~m.isHandComplete,
                              players |-> m.players, pot |-> m.pot, refund |-> 0]]
        inHand == getPlayersStillInHand(m1)
        m2 == IF Len(inHand) = 1
              THEN [m1 EXCEPT
                       !.players[inHand[1]].chips = @ + m1.pot,
                       !.winners = <<[playerId |-> m1.players[inHand[1]].id,
                                      amount |-> m1.pot]>>]
              ELSE CHOOSE out \in { evaluateShowdown(entered) : entered \in {m1} } : TRUE
    IN CHOOSE out \in { prepareNextHand(settled) : settled \in {m2} } : TRUE

(* --------------------------- street progression ----------------------- *)
(* isHandComplete that only looks at the betting round                     *)
isHandComplete_OnlyAtShowdown(m) == m.currentBettingRound = "showdown"

isHandComplete(m) ==
    \/ Len(getPlayersStillInHand(m)) <= 1
    \/ m.currentBettingRound = "showdown"

(* the street is revealed from the top of the deck without a burn card     *)
dealStreet_NoBurn(m, reveal) ==
    LET m2 == dealCards(m, reveal)
    IN [m2 EXCEPT !.communityCards = @ + reveal]

(* dealFlop / dealTurn / dealRiver: burn one card, then reveal             *)
dealStreet(m, reveal) ==
    LET m1 == dealCards(m, 1)
        m2 == dealCards(m1, reveal)
    IN [m2 EXCEPT !.communityCards = @ + reveal]

(* the flop is followed by the river: both cards are dealt in one advance  *)
advanceBettingRound_SkipsTurn(m) ==
    LET m1 == [m EXCEPT !.players = [i \in 1..Len(m.players) |->
                  [m.players[i] EXCEPT !.hasActed = FALSE, !.currentBet = 0]]]
        r == m.currentBettingRound
        m2 == CASE r = "preflop" ->
                     [dealStreet(m1, 3) EXCEPT !.currentBettingRound = "flop"]
                [] r = "flop" ->
                     [dealStreet(dealStreet(m1, 1), 1)
                        EXCEPT !.currentBettingRound = "river"]
                [] r = "turn" ->
                     [dealStreet(m1, 1) EXCEPT !.currentBettingRound = "river"]
                [] OTHER -> m1
    IN IF r = "river"
       THEN CHOOSE out \in { completeHand(atShowdown) :
                              atShowdown \in {[m1 EXCEPT !.currentBettingRound = "showdown"]} } : TRUE
       ELSE CHOOSE out \in { setFirstPlayerPostFlop(dealt) :
                              dealt \in {[m2 EXCEPT !.currentBet = 0]} } : TRUE

advanceBettingRound(m) ==
    LET m1 == [m EXCEPT !.players = [i \in 1..Len(m.players) |->
                  [m.players[i] EXCEPT !.hasActed = FALSE, !.currentBet = 0]]]
        r == m.currentBettingRound
        m2 == CASE r = "preflop" ->
                     [dealStreet(m1, 3) EXCEPT !.currentBettingRound = "flop"]
                [] r = "flop" ->
                     [dealStreet(m1, 1) EXCEPT !.currentBettingRound = "turn"]
                [] r = "turn" ->
                     [dealStreet(m1, 1) EXCEPT !.currentBettingRound = "river"]
                [] OTHER -> m1
    IN IF r = "river"
       THEN CHOOSE out \in { completeHand(atShowdown) :
                              atShowdown \in {[m1 EXCEPT !.currentBettingRound = "showdown"]} } : TRUE
       ELSE CHOOSE out \in { setFirstPlayerPostFlop(dealt) :
                              dealt \in {[m2 EXCEPT !.currentBet = 0]} } : TRUE

(* while (!isHandComplete && round !== SHOWDOWN) advanceBettingRound()     *)
RECURSIVE fastForward(_)
fastForward(m) ==
    IF ~m.isHandComplete /\ m.currentBettingRound # "showdown"
    THEN CHOOSE out \in { fastForward(advanced) : advanced \in {advanceBettingRound(m)} } : TRUE
    ELSE IF ~m.isHandComplete THEN completeHand(m) ELSE m

(* ------------------------- processPlayerAction ------------------------ *)
(* the checks with validateAction run before the turn check                *)
actionError_ValidatesBeforeTurnCheck(m, playerId, action) ==
    LET found == findPlayerById(m, playerId)
    IN IF Len(found) = 0 THEN "PlayerNotFound"
       ELSE IF validateAction(m, found[1], action) # "ok"
       THEN validateAction(m, found[1], action)
       ELSE IF ~isPlayersTurn(m, playerId) THEN "NotPlayersTurn"
       ELSE "ok"

(* the error processPlayerAction throws, or "ok"                           *)
actionError(m, playerId, action) ==
    LET found == findPlayerById(m, playerId)
    IN IF Len(found) = 0 THEN "PlayerNotFound"
       ELSE IF ~isPlayersTurn(m, playerId) THEN "NotPlayersTurn"
       ELSE validateAction(m, found[1], action)

(* the state right after executeAction and the bookkeeping that follows it *)
applyAction(m, playerId, action) ==
    LET i == findPlayerById(m, playerId)[1]
        m1 == executeAction(m, i, action)
    IN [m1 EXCEPT !.lastAction = action, !.players[i].hasActed = TRUE]

(* the rest of processPlayerAction: completion, fast-forward, turn advance *)
afterAction(m) ==
    IF isHandComplete(m) THEN completeHand(m)
    ELSE IF Len(playersWhoCanAct(m)) = 0 THEN fastForward(m)
    ELSE IF isBettingRoundComplete(m) THEN advanceBettingRound(m)
    ELSE advanceToNextPlayer(m)

(* processPlayerAction that records lastAction before it validates        *)
processPlayerAction_RecordsBeforeValidating(m, playerId, action) ==
    IF actionError(m, playerId, action) # "ok" THEN [m EXCEPT !.lastAction = action]
    ELSE CHOOSE out \in { afterAction(applied) :
                          applied \in {applyAction(m, playerId, action)} } : TRUE

processPlayerAction(m, playerId, action) ==
    IF actionError(m, playerId, action) # "ok" THEN m
    ELSE CHOOSE out \in { afterAction(applied) :
                          applied \in {applyAction(m, playerId, action)} } : TRUE

(* ------------------------------ queries ------------------------------- *)
canPlayerAct(m, playerId) ==
    LET found == findPlayerById(m, playerId)
    IN IF Len(found) = 0 THEN FALSE
       ELSE /\ isPlayersTurn(m, playerId)
            /\ ~m.players[found[1]].isFolded
            /\ ~m.players[found[1]].isAllIn

(* the action kinds getValidActions returns, as a set                      *)
getValidActions(m, playerId) ==
    LET found == findPlayerById(m, playerId)
    IN IF Len(found) = 0 \/ ~canPlayerAct(m, playerId) THEN {}
       ELSE LET player == m.players[found[1]]
                callAmount == getCallAmount(m, player)
                eligibleCount == Len(playersWhoCanAct(m))
                minRaiseTotal == m.currentBet + Max(m.lastRaiseSize, m.blinds.big)
            IN {"fold"}
               \cup (IF callAmount = 0 THEN {"check"}
                     ELSE IF player.chips >= callAmount THEN {"call"} ELSE {})
               \cup (IF eligibleCount > 1
                     THEN IF m.currentBet = 0
                          THEN IF player.chips + player.currentBet >= m.blinds.big
                               THEN {"bet"} ELSE {}
                          ELSE IF player.chips + player.currentBet >= minRaiseTotal
                               THEN {"raise"} ELSE {}
                     ELSE {})
               \cup (IF player.chips > 0 THEN {"all-in"} ELSE {})

(* ------------------------------- reads -------------------------------- *)
ensureProgressIfStalled(m) ==
    IF m.isHandComplete THEN m
    ELSE IF Len(playersWhoCanAct(m)) = 0 THEN fastForward(m)
    ELSE LET cur == m.activePlayerIndex + 1
             stalled == \/ cur \notin 1..Len(m.players)
                        \/ m.players[cur].isFolded
                        \/ m.players[cur].isAllIn
                        \/ m.players[cur].disconnected
             m1 == IF stalled THEN advanceToNextPlayer(m) ELSE m
         IN CHOOSE out \in { IF isBettingRoundComplete(moved) THEN advanceBettingRound(moved)
                            ELSE moved : moved \in {m1} } : TRUE

(* ------------------------------ the machine --------------------------- *)
Actions ==
    { [type |-> t, amount |-> 0] : t \in {"fold", "check", "call", "all-in"} }
    \cup { [type |-> t, amount |-> a] : t \in {"bet", "raise"}, a \in 0..MaxAmount }

ValueAssignments == [PlayerIds -> 1..MaxValue]

DefaultValues == [id \in PlayerIds |-> 1]

NoCall == [op |-> "constructor", playerId |-> UnknownId, result |-> "ok"]

(* new PokerGameEngine(tableId, players, smallBlind, bigBlind)             *)
Constructed(stacks, blinds) ==
    [handNumber |-> 1,
     players |-> setupPlayers(stacks),
     dealerPosition |-> 0,
     deck |-> 0,
     communityCards |-> 0,
     currentBettingRound |-> "preflop",
     currentBet |-> blinds.big,
     lastRaiseSize |-> blinds.big,
     pot |-> 0,
     sidePots |-> <<>>,
     blinds |-> blinds,
     activePlayerIndex |-> 0,
     lastAction |-> NoAction,
     isHandComplete |-> FALSE,
     winners |-> <<>>]

(* the state after new PokerGameEngine(...) for tables of the given sizes   *)
(* and blind levels: the constructor sets the players up and starts the    *)
(* first hand                                                              *)
InitTable(sizes, levels) ==
    \E n \in sizes, blinds \in levels :
      \E stacks \in [1..n -> 1..MaxChips] :
        /\ \E constructed \in {Working(Constructed(stacks, blinds), DefaultValues)} :
           \E m \in {startNewHand(constructed)} :
              gameState = StateOf(m)
        /\ evals = NoEvals
        /\ call = NoCall
        /\ exec = NoExec
        /\ settle = NoSettle

Init == InitTable(2..MaxPlayers, BlindLevels)

Finish(m) ==
    /\ gameState' = StateOf(m)
    /\ settle' = IF m.settle.done
                 THEN [done |-> TRUE, first |-> m.settle.first,
                       players |-> m.settle.players,
                       pot |-> m.settle.pot, refund |-> m.settle.refund,
                       showdown |-> m.showdown]
                 ELSE NoSettle
    /\ evals' = IF m.showdown THEN m.ev ELSE evals

(* The evaluations in play are those of the deck already looked at; when   *)
(* the call is the first of the hand to reach a showdown they are the ones *)
(* the shuffle produced: any assignment of values to the players.          *)
KnownValues == IF evals # NoEvals THEN evals ELSE DefaultValues

EvalChoices == IF evals # NoEvals THEN {evals} ELSE ValueAssignments

(* the player-not-found and turn checks do not look at the action, so one  *)
(* action stands for all of them when the caller is not the player to act  *)
ActionsTried(playerId) ==
    IF isPlayersTurn(gameState, playerId) THEN Actions
    ELSE { [type |-> "fold", amount |-> 0] }

(* engine.processPlayerAction(playerId, action) for a caller among ids,    *)
(* with the evaluations known and those the shuffle may have produced      *)
processPlayerActionCall(ids, known, choices) ==
    \E playerId \in ids :
    \E action \in ActionsTried(playerId) :
    \E m0 \in {Working(gameState, known)} :
    \E err \in {actionError(m0, playerId, action)} :
         /\ call' = [op |-> "processPlayerAction", playerId |-> playerId,
                     result |-> err]
         /\ IF err = "ok"
            THEN \E m1 \in {applyAction(m0, playerId, action)} :
                 \E r \in {afterAction(m1)} :
                 /\ exec' = [done |-> TRUE, state |-> StateOf(m1)]
                 /\ IF r.showdown
                    THEN \E v \in choices :
                         \E rv \in {processPlayerAction(Working(gameState, v),
                                                        playerId, action)} :
                           Finish(rv)
                    ELSE Finish(r)
            ELSE /\ exec' = NoExec
                 /\ \E r \in {processPlayerAction(m0, playerId, action)} : Finish(r)

ProcessPlayerAction ==
    /\ gameState.handNumber <= MaxHands
    /\ processPlayerActionCall(PlayerIds \cup {UnknownId}, KnownValues, EvalChoices)

(* a call of startNewHand, which the engine accepts in any state           *)
startNewHandCall ==
    /\ gameState.handNumber <= MaxHands
    /\ \E m \in {Working(gameState, DefaultValues)} :
       \E r \in {startNewHand(m)} :
          /\ call' = [op |-> "startNewHand", playerId |-> UnknownId,
                      result |-> IF postBlindsThrows(m) THEN "NeedTwoPlayers" ELSE "ok"]
          /\ gameState' = StateOf(r)
          /\ evals' = NoEvals
          /\ exec' = NoExec
          /\ settle' = NoSettle

(* the table starts the next hand when the hand is complete                *)
StartNewHand ==
    /\ gameState.isHandComplete
    /\ startNewHandCall

(* a read runs ensureProgressIfStalled; call records the read only when it *)
(* changed the state                                                       *)
readCall(op, known, choices) ==
    \E r \in {ensureProgressIfStalled(Working(gameState, known))} :
       IF StateOf(r) = gameState
       THEN UNCHANGED vars
       ELSE /\ call' = [op |-> op, playerId |-> UnknownId, result |-> "ok"]
            /\ exec' = NoExec
            /\ IF r.showdown
               THEN \E v \in choices :
                    \E rv \in {ensureProgressIfStalled(Working(gameState, v))} :
                      Finish(rv)
               ELSE Finish(r)

(* getGameState and getCurrentPlayer                                       *)
Read(op) ==
    /\ gameState.handNumber <= MaxHands
    /\ readCall(op, KnownValues, EvalChoices)

GetGameState == Read("getGameState")

GetCurrentPlayer == Read("getCurrentPlayer")

Next ==
    \/ ProcessPlayerAction
    \/ StartNewHand
    \/ GetGameState
    \/ GetCurrentPlayer

Spec == Init /\ [][Next]_vars

(* ------------------- a four-handed table, one hand -------------------- *)
WidePlayers == 4

(* the stacks tried at the four-handed table: short of the big blind, or   *)
(* with chips left after calling it                                       *)
WideStacks == {1, 3}

WideIds == 1..WidePlayers

WideValueAssignments == [WideIds -> 1..MaxValue]

WideKnownValues == IF evals # NoEvals THEN evals ELSE [id \in WideIds |-> 1]

WideEvalChoices == IF evals # NoEvals THEN {evals} ELSE WideValueAssignments

(* the four-handed table created with one of the given seatings of stacks  *)
InitWideOf(seatings) ==
    \E stacks \in seatings :
        /\ \E constructed \in {Working(Constructed(stacks, [small |-> 1, big |-> 2]),
                                        [id \in WideIds |-> 1])} :
           \E m \in {startNewHand(constructed)} :
              gameState = StateOf(m)
        /\ evals = NoEvals
        /\ call = NoCall
        /\ exec = NoExec
        /\ settle = NoSettle

InitWide == InitWideOf([1..WidePlayers -> WideStacks])

(* the table's client sends the action of the player whose turn it is      *)
WideProcessPlayerAction ==
    /\ ~gameState.isHandComplete
    /\ processPlayerActionCall({ id \in WideIds : isPlayersTurn(gameState, id) },
                               WideKnownValues, WideEvalChoices)

WideGetGameState ==
    /\ ~gameState.isHandComplete
    /\ readCall("getGameState", WideKnownValues, WideEvalChoices)

NextWide ==
    \/ WideProcessPlayerAction
    \/ WideGetGameState

SpecWide == InitWide /\ [][NextWide]_vars

(* ------------------------------------------------------------------------ *)
(*                               the claims                                 *)
(* ------------------------------------------------------------------------ *)
InProgress == ~gameState.isHandComplete

Accepted == call.op = "processPlayerAction" /\ call.result = "ok"

(* the call that settled the hand was the one that ended it at a showdown   *)
EndedAtShowdown == settle.done /\ settle.first /\ settle.showdown

(* C1: when a hand ends at showdown, the amounts paid out to the winners    *)
(* sum to the players' totalBet of the hand minus the refunded uncalled bet *)
C1_PotConservation ==
    EndedAtShowdown =>
        SumAmount(gameState.winners) = SumTotalBet(settle.players) - settle.refund

(* a showdown with two pot layers, a refund, and a pot split with remainder *)
C1_Witness ==
    /\ EndedAtShowdown
    /\ settle.refund > 0
    /\ Len(gameState.sidePots) >= 2
    /\ \E k \in 1..Len(gameState.sidePots) :
         gameState.sidePots[k].amount % 2 = 1 /\ Len(gameState.winners) >= 2

(* C2: a rejected processPlayerAction call leaves the game state as it was  *)
C2_RejectedNoEffect ==
    [][(call'.op = "processPlayerAction" /\ call'.result # "ok")
         => gameState' = gameState]_vars

(* an action of the player to act was refused by validateAction             *)
C2_Witness ==
    /\ call.op = "processPlayerAction"
    /\ call.result \notin {"ok", "PlayerNotFound", "NotPlayersTurn"}
    /\ InProgress

Seated(playerId) == \E i \in 1..Len(gameState.players) : gameState.players[i].id = playerId

(* C3: every seated player other than the one at activePlayerIndex is       *)
(* refused with not-your-turn, whatever the action and whether or not the   *)
(* player is folded or all-in; an id nobody has is refused with not-found   *)
C3_TurnCheckFirst ==
    \A playerId \in PlayerIds \cup {UnknownId}, action \in Actions :
        LET err == actionError(gameState, playerId, action)
        IN /\ (Seated(playerId) /\ ~isPlayersTurn(gameState, playerId))
                  => err = "NotPlayersTurn"
           /\ ~Seated(playerId) => err = "PlayerNotFound"

(* a folded player who is not the one to act was refused with not-your-turn *)
C3_Witness ==
    /\ call.op = "processPlayerAction"
    /\ call.result = "NotPlayersTurn"
    /\ InProgress
    /\ \E i \in 1..Len(gameState.players) :
         /\ gameState.players[i].id = call.playerId
         /\ gameState.players[i].isFolded

(* C4: while the hand is not complete the player at activePlayerIndex is    *)
(* not folded, not all-in and not disconnected                              *)
C4_ActivePlayerCanAct ==
    InProgress =>
        /\ gameState.activePlayerIndex + 1 \in 1..Len(gameState.players)
        /\ LET p == gameState.players[gameState.activePlayerIndex + 1]
           IN ~p.isFolded /\ ~p.isAllIn /\ ~p.disconnected

(* C5: while the hand is in progress pot is the sum of the players'         *)
(* totalBet; after the settlement that ends the hand the sum of totalBet of *)
(* the hand's players is pot plus the refunded uncalled bet                 *)
C5_PotIsSumOfTotalBet ==
    /\ InProgress => gameState.pot = SumTotalBet(gameState.players)
    /\ (settle.done /\ settle.first)
          => SumTotalBet(settle.players) = gameState.pot + settle.refund

(* an accepted raise or all-in left the hand in progress on a later street  *)
C5_Witness ==
    /\ InProgress
    /\ Accepted
    /\ gameState.lastAction.type \in {"raise", "all-in"}
    /\ gameState.pot >= 5

NonFoldedBets(gs) ==
    { gs.players[i].currentBet : i \in { j \in 1..Len(gs.players) : ~gs.players[j].isFolded } }

(* C6: during a betting round the table currentBet is the maximum           *)
(* currentBet of the non-folded players, and it never decreases in a round  *)
C6_CurrentBetIsMax ==
    /\ [](InProgress =>
            /\ gameState.currentBet \in NonFoldedBets(gameState)
            /\ \A b \in NonFoldedBets(gameState) : b <= gameState.currentBet)
    /\ [][(InProgress /\ ~gameState'.isHandComplete
             /\ gameState'.handNumber = gameState.handNumber
             /\ gameState'.currentBettingRound = gameState.currentBettingRound)
            => gameState'.currentBet >= gameState.currentBet]_vars

(* C7: lastRaiseSize is at least the big blind in every reachable state     *)
C7_LastRaiseAtLeastBigBlind ==
    gameState.lastRaiseSize >= gameState.blinds.big

(* the player at activePlayerIndex, when there is one able to act           *)
ActiveCanAct(gs) ==
    /\ gs.activePlayerIndex + 1 \in 1..Len(gs.players)
    /\ ~gs.players[gs.activePlayerIndex + 1].isFolded
    /\ ~gs.players[gs.activePlayerIndex + 1].isAllIn

ActivePlayer(gs) == gs.players[gs.activePlayerIndex + 1]

RaiseOf(a) == [type |-> "raise", amount |-> a]

(* this step is an accepted action of the given kind                        *)
AcceptedStep(kind) ==
    /\ vars' # vars
    /\ call'.op = "processPlayerAction"
    /\ call'.result = "ok"
    /\ exec'.done
    /\ exec'.state.lastAction.type = kind

(* C8: a raise to `amount` by the player to act is accepted exactly when    *)
(* currentBet > 0, amount >= currentBet + lastRaiseSize and the player's    *)
(* chips >= amount - player.currentBet; an accepted raise takes             *)
(* amount - player.currentBet from the player, makes currentBet amount and  *)
(* lastRaiseSize amount minus the previous currentBet                       *)
C8_RaiseLegality ==
    /\ []((InProgress /\ ActiveCanAct(gameState)) =>
            \A a \in 0..MaxAmount :
                LET p == ActivePlayer(gameState)
                IN (actionError(gameState, p.id, RaiseOf(a)) = "ok")
                   <=> /\ gameState.currentBet > 0
                       /\ a >= gameState.currentBet + gameState.lastRaiseSize
                       /\ p.chips >= a - p.currentBet)
    /\ [][AcceptedStep("raise") =>
            LET i == gameState.activePlayerIndex + 1
                a == exec'.state.lastAction.amount
            IN /\ exec'.state.players[i].chips
                    = gameState.players[i].chips - (a - gameState.players[i].currentBet)
               /\ exec'.state.currentBet = a
               /\ exec'.state.lastRaiseSize = a - gameState.currentBet]_vars

(* the all-in of player p brings p's round total above currentBet by less   *)
(* than lastRaiseSize                                                       *)
ShortAllIn(gs, p) ==
    /\ p.currentBet + p.chips > gs.currentBet
    /\ p.currentBet + p.chips - gs.currentBet < gs.lastRaiseSize

(* C9: an all-in whose excess over currentBet is less than lastRaiseSize    *)
(* leaves lastRaiseSize unchanged and does not reopen action: a player who  *)
(* had acted and matched the prior currentBet cannot raise when the turn    *)
(* comes to them next                                                       *)
C9_ShortAllInDoesNotReopen ==
    [][(/\ AcceptedStep("all-in")
        /\ InProgress
        /\ ActiveCanAct(gameState)
        /\ ShortAllIn(gameState, ActivePlayer(gameState)))
       => /\ exec'.state.lastRaiseSize = gameState.lastRaiseSize
          /\ \A j \in 1..Len(gameState.players) :
                (/\ gameState.players[j].hasActed
                 /\ gameState.players[j].currentBet = gameState.currentBet
                 /\ ~gameState.players[j].isFolded
                 /\ ~gameState.players[j].isAllIn
                 /\ ~gameState'.isHandComplete
                 /\ gameState'.currentBettingRound = gameState.currentBettingRound
                 /\ gameState'.activePlayerIndex = j - 1)
                => \A a \in 0..MaxAmount :
                      actionError(gameState', gameState.players[j].id, RaiseOf(a)) # "ok"]_vars

CheckAction == [type |-> "check", amount |-> 0]

CallAction == [type |-> "call", amount |-> 0]

(* table currentBet minus the currentBet of player p                        *)
CallGap(gs, p) == gs.currentBet - p.currentBet

(* C11: for the player to act, check is accepted exactly when the call      *)
(* amount (table currentBet - player.currentBet) is 0 and moves no chips;   *)
(* call is accepted exactly when the call amount is > 0 and the player's    *)
(* chips cover it; an accepted call makes the player's currentBet the table *)
(* currentBet and moves exactly the call amount from the chips to the pot   *)
C11_CheckAndCall ==
    /\ []((InProgress /\ ActiveCanAct(gameState)) =>
            LET p == ActivePlayer(gameState)
                gap == CallGap(gameState, p)
            IN /\ (actionError(gameState, p.id, CheckAction) = "ok") <=> gap = 0
               /\ (actionError(gameState, p.id, CallAction) = "ok")
                     <=> (gap > 0 /\ p.chips >= gap))
    /\ [][AcceptedStep("check") =>
            /\ exec'.state.pot = gameState.pot
            /\ \A j \in 1..Len(gameState.players) :
                  exec'.state.players[j].chips = gameState.players[j].chips]_vars
    /\ [][AcceptedStep("call") =>
            LET i == gameState.activePlayerIndex + 1
                gap == CallGap(gameState, gameState.players[i])
            IN /\ exec'.state.players[i].currentBet = exec'.state.currentBet
               /\ exec'.state.currentBet = gameState.currentBet
               /\ exec'.state.players[i].chips = gameState.players[i].chips - gap
               /\ exec'.state.pot = gameState.pot + gap]_vars

NextStreet(r) ==
    CASE r = "preflop" -> "flop"
      [] r = "flop" -> "turn"
      [] r = "turn" -> "river"
      [] r = "river" -> "showdown"
      [] OTHER -> "none"

(* every non-folded, non-all-in player has matched the table currentBet and *)
(* has acted since the last bet or raise                                    *)
AllMatchedAndActed(gs) ==
    \A j \in 1..Len(gs.players) :
        (~gs.players[j].isFolded /\ ~gs.players[j].isAllIn)
            => (gs.players[j].currentBet = gs.currentBet /\ gs.players[j].hasActed)

(* the 0-based seats met going around the table from the seat after idx     *)
SeatsAfter(gs, idx) ==
    [k \in 1..Len(gs.players) |-> (idx + k) % Len(gs.players)]

Eligible(gs, seat) ==
    /\ ~gs.players[seat + 1].isFolded
    /\ ~gs.players[seat + 1].isAllIn
    /\ ~gs.players[seat + 1].disconnected

(* seat is the first eligible seat of the sequence seats                    *)
FirstEligible(gs, seats, seat) ==
    \E k \in 1..Len(seats) :
        /\ seats[k] = seat
        /\ Eligible(gs, seat)
        /\ \A h \in 1..(k - 1) : ~Eligible(gs, seats[h])

(* C12: after an accepted action that does not end the hand, the round      *)
(* moves to the next street exactly when every non-folded, non-all-in       *)
(* player has matched the table currentBet and has acted; otherwise the     *)
(* round stays and activePlayerIndex moves to the next non-folded,          *)
(* non-all-in, connected player in seating order, wrapping around           *)
C12_RoundAdvanceOrNextPlayer ==
    [][(/\ vars' # vars
        /\ call'.op = "processPlayerAction"
        /\ call'.result = "ok"
        /\ InProgress
        /\ ~gameState'.isHandComplete)
       => IF AllMatchedAndActed(exec'.state)
          THEN gameState'.currentBettingRound = NextStreet(gameState.currentBettingRound)
          ELSE /\ gameState'.currentBettingRound = gameState.currentBettingRound
               /\ FirstEligible(exec'.state,
                                SeatsAfter(exec'.state, gameState.activePlayerIndex),
                                gameState'.activePlayerIndex)]_vars

(* after an accepted action the turn wrapped around the table past a seat   *)
(* that is folded or all-in, in the same round                              *)
C12_Witness ==
    /\ Accepted
    /\ InProgress
    /\ exec.done
    /\ gameState.currentBettingRound = exec.state.currentBettingRound
    /\ gameState.activePlayerIndex < exec.state.activePlayerIndex
    /\ ~AllMatchedAndActed(exec.state)
    /\ \E j \in 1..Len(gameState.players) :
          gameState.players[j].isFolded \/ gameState.players[j].isAllIn

NonFoldedSeats(gs) == { j \in 1..Len(gs.players) : ~gs.players[j].isFolded }

CanActSeats(gs) ==
    { j \in 1..Len(gs.players) : ~gs.players[j].isFolded /\ ~gs.players[j].isAllIn }

(* at least two players are in the hand, at most one of them is not all-in  *)
(* and that one has no bet left to respond to                               *)
NothingLeftToDecide(gs) ==
    /\ Cardinality(NonFoldedSeats(gs)) >= 2
    /\ Cardinality(CanActSeats(gs)) <= 1
    /\ \A j \in CanActSeats(gs) : gs.players[j].currentBet >= gs.currentBet

(* C13: when an accepted action leaves at most one non-folded player not    *)
(* all-in and nobody with a bet to respond to, the same call deals the      *)
(* remaining streets and settles: the hand is complete with 5 community     *)
(* cards                                                                    *)
C13_FastForwardWhenNobodyCanAct ==
    [][(/\ vars' # vars
        /\ call'.op = "processPlayerAction"
        /\ call'.result = "ok"
        /\ InProgress
        /\ NothingLeftToDecide(exec'.state))
       => (gameState'.isHandComplete /\ gameState'.communityCards = 5)]_vars

(* the chips of the player with this id, 0 when the player is not seated    *)
ChipsOf(gs, id) ==
    IF \E j \in 1..Len(gs.players) : gs.players[j].id = id
    THEN gs.players[CHOOSE j \in 1..Len(gs.players) : gs.players[j].id = id].chips
    ELSE 0

(* C14: an accepted fold that leaves exactly one non-folded player ends the *)
(* hand within the call, in whatever street: that player's chips grow by    *)
(* the entire pot, they are the only entry of winners, no community card is *)
(* dealt and no hand is evaluated                                           *)
C14_LastPlayerStandingWinsPot ==
    [][(/\ AcceptedStep("fold")
        /\ InProgress
        /\ Cardinality(NonFoldedSeats(exec'.state)) = 1)
       => LET w == CHOOSE j \in NonFoldedSeats(exec'.state) : TRUE
              winner == exec'.state.players[w]
          IN /\ gameState'.isHandComplete
             /\ ChipsOf(gameState', winner.id) = winner.chips + gameState.pot
             /\ gameState'.winners = <<[playerId |-> winner.id, amount |-> gameState.pot]>>
             /\ gameState'.communityCards = gameState.communityCards
             /\ gameState'.currentBettingRound = gameState.currentBettingRound
             /\ ~settle'.showdown
             /\ evals' = evals]_vars

(* a fold after the flop left one player, who was awarded the pot           *)
C14_Witness ==
    /\ Accepted
    /\ exec.done
    /\ exec.state.lastAction.type = "fold"
    /\ settle.done /\ settle.first /\ ~settle.showdown
    /\ gameState.currentBettingRound \in {"flop", "turn", "river"}
    /\ Len(gameState.winners) = 1
    /\ Len(settle.players) = 3

(* in a round opened by a bet of the player at seat w, nobody else has put  *)
(* chips in: the bet of w is uncalled                                       *)
UncalledBet(gs, w) ==
    /\ gs.currentBettingRound \in {"flop", "turn", "river"}
    /\ gs.players[w].currentBet > 0
    /\ gs.players[w].currentBet = gs.currentBet
    /\ \A j \in 1..Len(gs.players) : j # w => gs.players[j].currentBet = 0

(* C15: when a player bets and every other player folds without calling,    *)
(* the bet goes back to the bettor's stack and is in no pot: the amount     *)
(* awarded to the bettor in winners is the pot as it was before the bet     *)
C15_UncalledBetNotAwarded ==
    [][(/\ AcceptedStep("fold")
        /\ InProgress
        /\ Cardinality(NonFoldedSeats(exec'.state)) = 1
        /\ UncalledBet(exec'.state, CHOOSE j \in NonFoldedSeats(exec'.state) : TRUE))
       => LET w == CHOOSE j \in NonFoldedSeats(exec'.state) : TRUE
              bettor == exec'.state.players[w]
          IN /\ ChipsOf(gameState', bettor.id) = bettor.chips + gameState.pot
             /\ gameState'.winners =
                   <<[playerId |-> bettor.id, amount |-> gameState.pot - bettor.currentBet]>>]_vars

(* the call that settled the hand ran evaluateShowdown, for the first time  *)
(* in the hand, on players whose contributions differ                       *)
UnequalShowdown ==
    /\ EndedAtShowdown
    /\ Cardinality({ settle.players[i].totalBet : i \in 1..Len(settle.players) }) > 1

ContributionLevels == { settle.players[i].totalBet : i \in 1..Len(settle.players) }

PreviousLevel(level) ==
    LET below == { l \in ContributionLevels \cup {0} : l < level }
    IN IF below = {} THEN 0 ELSE CHOOSE l \in below : \A k \in below : k <= l

(* (level - previous level) x (number of players whose totalBet >= level)   *)
LayerAmount(level) ==
    (level - PreviousLevel(level))
        * Cardinality({ i \in 1..Len(settle.players) : settle.players[i].totalBet >= level })

(* C16: at a showdown with unequal contributions the side pots follow the   *)
(* distinct totalBet levels of all players in ascending order, each pot     *)
(* amounting to (level - previous level) x (players with totalBet >= level);*)
(* contributions 2/2/1 (200/200/100 in units of 100) give pots 3 and 2      *)
C16_SidePotLayers ==
    UnequalShowdown =>
        /\ \E f \in [1..Len(gameState.sidePots) -> ContributionLevels] :
              /\ \A k \in 1..Len(gameState.sidePots) :
                    gameState.sidePots[k].amount = LayerAmount(f[k])
              /\ \A k \in 1..(Len(gameState.sidePots) - 1) : f[k] < f[k + 1]
        /\ (/\ ContributionLevels \subseteq {0, 1, 2}
            /\ Cardinality({ i \in 1..Len(settle.players) : settle.players[i].totalBet = 2 }) = 2
            /\ Cardinality({ i \in 1..Len(settle.players) : settle.players[i].totalBet = 1 }) = 1)
           => /\ Len(gameState.sidePots) = 2
              /\ gameState.sidePots[1].amount = 3
              /\ gameState.sidePots[2].amount = 2

(* the player of the settled hand with this id                              *)
SettledPlayer(id) ==
    settle.players[CHOOSE i \in 1..Len(settle.players) : settle.players[i].id = id]

(* what a player who put in `total` can win: from every player q the part   *)
(* of q.totalBet at or below total                                          *)
Entitlement(total) ==
    SumSeq([i \in 1..Len(settle.players) |-> Min(settle.players[i].totalBet, total)])

(* C17: at showdown a player is paid only from pot layers at or below their *)
(* own totalBet: every winner is a non-folded player and is paid at most    *)
(* the sum over all players q of min(q.totalBet, the winner's totalBet)     *)
C17_PaidWithinEntitlement ==
    EndedAtShowdown =>
        \A k \in 1..Len(gameState.winners) :
            LET p == SettledPlayer(gameState.winners[k].playerId)
            IN /\ ~p.isFolded
               /\ gameState.winners[k].amount <= Entitlement(p.totalBet)

(* C18: after a showdown settlement the amounts of the entries of sidePots  *)
(* sum to pot, the hand's pot less the uncalled bet that was refunded       *)
C18_SidePotsSumToPot ==
    EndedAtShowdown =>
        /\ SumAmount(gameState.sidePots) = gameState.pot
        /\ gameState.pot = settle.pot - settle.refund

(* a showdown of four players with a refund and two pots                    *)
C18_Witness ==
    /\ EndedAtShowdown
    /\ settle.refund > 0
    /\ Len(gameState.sidePots) >= 2
    /\ Len(settle.players) = 4

(* this step moved the hand to the flop, the turn or the river and left it  *)
(* in progress with somebody able to act                                    *)
StreetTransition ==
    /\ vars' # vars
    /\ InProgress
    /\ ~gameState'.isHandComplete
    /\ gameState'.handNumber = gameState.handNumber
    /\ gameState'.currentBettingRound \in {"flop", "turn", "river"}
    /\ gameState'.currentBettingRound # gameState.currentBettingRound
    /\ CanActSeats(gameState') # {}

(* C19: after a street transition the player to act is the first            *)
(* non-folded, non-all-in player met going around the table from the seat   *)
(* after the dealer                                                         *)
C19_FirstToActPostFlop ==
    [][StreetTransition =>
         FirstEligible(gameState',
                       SeatsAfter(gameState', gameState'.dealerPosition),
                       gameState'.activePlayerIndex)]_vars

RoundRank(r) ==
    CASE r = "preflop" -> 0
      [] r = "flop" -> 1
      [] r = "turn" -> 2
      [] r = "river" -> 3
      [] OTHER -> 4

(* community cards on the table in each betting round                       *)
CardsInRound(r) ==
    CASE r = "preflop" -> 0
      [] r = "flop" -> 3
      [] r = "turn" -> 4
      [] OTHER -> 5

(* streets dealt (flop, turn, river) on the way from round a to round b     *)
StreetsDealt(a, b) == Min(RoundRank(b), 3) - Min(RoundRank(a), 3)

(* a step inside a hand: anything but the startNewHand that opens the next  *)
WithinHandStep ==
    /\ vars' # vars
    /\ call'.op # "startNewHand"

(* C20: within one hand currentBettingRound only moves forward along        *)
(* preflop, flop, turn, river, showdown, one street per advance and never   *)
(* skipping a street (every street passed is dealt with its burn card), and *)
(* the community cards number 0 in preflop, 3 in flop, 4 in turn and 5 in   *)
(* river and showdown                                                       *)
C20_RoundsMoveForwardByOne ==
    /\ [](gameState.communityCards = CardsInRound(gameState.currentBettingRound))
    /\ [](InProgress /\ gameState.currentBettingRound # "showdown" =>
            advanceBettingRound(Working(gameState, KnownValues)).currentBettingRound
              = NextStreet(gameState.currentBettingRound))
    /\ [][WithinHandStep =>
            LET a == gameState.currentBettingRound
                b == gameState'.currentBettingRound
            IN /\ RoundRank(b) >= RoundRank(a)
               /\ ~gameState'.isHandComplete =>
                     RoundRank(b) <= RoundRank(a) + 1
               /\ gameState.deck - gameState'.deck
                     = (gameState'.communityCards - gameState.communityCards)
                       + StreetsDealt(a, b)]_vars

(* the hand went from the turn to the river on an accepted action and is    *)
(* still in progress with five community cards                              *)
C20_Witness ==
    /\ Accepted
    /\ InProgress
    /\ exec.state.currentBettingRound = "turn"
    /\ gameState.currentBettingRound = "river"
    /\ gameState.communityCards = 5

(* a hand has just been started and nothing else has happened in it         *)
FreshHand ==
    /\ call.op \in {"constructor", "startNewHand"}
    /\ call.result = "ok"

(* the seat k positions after the dealer                                    *)
SeatAfterDealer(gs, k) == (gs.dealerPosition + k) % Len(gs.players)

(* the player at seat has just posted blind: all of it, or the whole stack  *)
PostedBlind(gs, seat, blind) ==
    LET p == gs.players[seat + 1]
    IN /\ p.totalBet = Min(blind, p.chips + p.totalBet)
       /\ p.currentBet = p.totalBet

(* C21: with three or more players, after startNewHand the small and the    *)
(* big blind are posted by the first and the second seat after the dealer   *)
(* and nobody else, and the player to act is the first non-folded,          *)
(* non-all-in seat after the big blind: the seat three positions after the  *)
(* dealer when every seat is eligible                                       *)
C21_BlindsAndFirstToActRing ==
    FreshHand /\ Len(gameState.players) >= 3 =>
      LET gs == gameState
          sb == SeatAfterDealer(gs, 1)
          bb == SeatAfterDealer(gs, 2)
      IN /\ gs.players[sb + 1].isSmallBlind /\ ~gs.players[sb + 1].isBigBlind
         /\ gs.players[bb + 1].isBigBlind /\ ~gs.players[bb + 1].isSmallBlind
         /\ PostedBlind(gs, sb, gs.blinds.small)
         /\ PostedBlind(gs, bb, gs.blinds.big)
         /\ \A seat \in 0..(Len(gs.players) - 1) :
               seat \notin {sb, bb} =>
                 /\ gs.players[seat + 1].totalBet = 0
                 /\ ~gs.players[seat + 1].isSmallBlind
                 /\ ~gs.players[seat + 1].isBigBlind
         /\ FirstEligible(gs, SeatsAfter(gs, bb), gs.activePlayerIndex)
         /\ (\A seat \in 0..(Len(gs.players) - 1) : Eligible(gs, seat)) =>
               gs.activePlayerIndex = SeatAfterDealer(gs, 3)

(* a second hand of three players, the button moved on, every seat eligible *)
C21_Witness ==
    /\ FreshHand
    /\ call.op = "startNewHand"
    /\ Len(gameState.players) = 3
    /\ gameState.dealerPosition = 1
    /\ \A seat \in 0..2 : Eligible(gameState, seat)
    /\ gameState.activePlayerIndex = 1

(* C22: with exactly two players startNewHand makes the dealer the small    *)
(* blind: the player at dealerPosition is flagged isSmallBlind and posts    *)
(* the small blind, the other player posts the big blind                    *)
C22_HeadsUpDealerIsSmallBlind ==
    FreshHand /\ Len(gameState.players) = 2 =>
      LET gs == gameState
          dealer == gs.dealerPosition
          other == SeatAfterDealer(gs, 1)
      IN /\ gs.players[dealer + 1].isSmallBlind
         /\ PostedBlind(gs, dealer, gs.blinds.small)
         /\ gs.players[other + 1].isBigBlind
         /\ PostedBlind(gs, other, gs.blinds.big)

HeadsUp(gs) == Len(gs.players) = 2

BothCanAct(gs) == Eligible(gs, 0) /\ Eligible(gs, 1)

PostFlop(gs) == gs.currentBettingRound \in {"flop", "turn", "river"}

(* C23: with exactly two players the dealer is the player to act first      *)
(* preflop, and on every post-flop street in which both players can still   *)
(* act the non-dealer acts first and the dealer acts last: the street opens *)
(* with the non-dealer to act, and whenever the dealer is to act the        *)
(* non-dealer has already acted on the street                               *)
C23_HeadsUpOrder ==
    /\ [](FreshHand /\ HeadsUp(gameState) =>
             gameState.activePlayerIndex = gameState.dealerPosition)
    /\ [](InProgress /\ HeadsUp(gameState) /\ PostFlop(gameState)
             /\ BothCanAct(gameState)
             /\ gameState.activePlayerIndex = gameState.dealerPosition =>
             gameState.players[SeatAfterDealer(gameState, 1) + 1].hasActed)
    /\ [][StreetTransition /\ HeadsUp(gameState') /\ BothCanAct(gameState') =>
             gameState'.activePlayerIndex = SeatAfterDealer(gameState', 1)]_vars

(* heads-up on the turn, both able to act, the non-dealer has acted and the *)
(* dealer is to act                                                         *)
C23_Witness ==
    /\ InProgress
    /\ Accepted
    /\ HeadsUp(gameState)
    /\ BothCanAct(gameState)
    /\ gameState.currentBettingRound = "turn"
    /\ gameState.activePlayerIndex = gameState.dealerPosition
    /\ gameState.players[SeatAfterDealer(gameState, 1) + 1].hasActed

(* this step is a startNewHand that failed with an error                    *)
FailedStartNewHand ==
    /\ vars' # vars
    /\ call'.op = "startNewHand"
    /\ call'.result # "ok"

(* C24: a startNewHand that fails for want of two players fails before any  *)
(* side effect: the state after the failed call equals the state before it  *)
C24_FailedStartHasNoEffect ==
    [][FailedStartNewHand => gameState' = gameState]_vars

(* this step ran completeHand                                               *)
SettlingStep ==
    /\ vars' # vars
    /\ settle'.done

RosterIds(ps) == { ps[k].id : k \in 1..Len(ps) }

(* the players as they stood when the settlement began                      *)
PlayersBeforeSettlement == IF exec'.done THEN exec'.state.players ELSE gameState.players

(* C25: after a hand is settled the roster holds, in seating order, exactly *)
(* the players with chips > 0, dealerPosition designates in that roster the *)
(* first player after the previous dealer in seating order who has chips,   *)
(* and handNumber has increased by exactly 1                                *)
C25_PrepareNextHand ==
    [][SettlingStep =>
         LET old == gameState.players
             new == gameState'.players
             kept == RosterIds(new)
             around == SeatsAfter(gameState, gameState.dealerPosition)
             first == CHOOSE k \in 1..Len(around) :
                        /\ old[around[k] + 1].id \in kept
                        /\ \A h \in 1..(k - 1) : old[around[h] + 1].id \notin kept
         IN /\ gameState'.handNumber = gameState.handNumber + 1
            /\ \A k \in 1..Len(new) : new[k].chips > 0
            /\ kept # {}
            /\ [k \in 1..Len(new) |-> new[k].id]
                 = SelectSeq([k \in 1..Len(old) |-> old[k].id], LAMBDA id : id \in kept)
            /\ \A k \in 1..Len(old) :
                 old[k].id \notin kept => PlayersBeforeSettlement[k].chips = 0
            /\ gameState'.dealerPosition + 1 \in 1..Len(new)
            /\ new[gameState'.dealerPosition + 1].id = old[around[first] + 1].id]_vars

(* a three-player hand was settled, the player after the dealer busted and  *)
(* the button passed over that seat to the third player                     *)
C25_Witness ==
    /\ settle.done /\ settle.first
    /\ Len(settle.players) = 3
    /\ settle.players[1].isDealer
    /\ Len(gameState.players) = 2
    /\ settle.players[2].id \notin RosterIds(gameState.players)
    /\ gameState.players[gameState.dealerPosition + 1].id = settle.players[3].id

(* this step is a call of one of the read operations                        *)
ReadStep ==
    /\ vars' # vars
    /\ call'.op \in {"getGameState", "getCurrentPlayer"}

(* C26: getGameState and getCurrentPlayer never change the engine state:    *)
(* the state after a read equals the state before it                        *)
C26_ReadsChangeNothing ==
    [][ReadStep => gameState' = gameState]_vars

ActionKinds == {"fold", "check", "call", "bet", "raise", "all-in"}

(* every amount a player of this table could put behind a bet or a raise    *)
AmountsTried == 0..(MaxPlayers * MaxChips)

(* the kinds of action that processPlayerAction would accept from playerId  *)
(* for at least one amount                                                  *)
AcceptedKinds(gs, playerId) ==
    { t \in ActionKinds :
        \E a \in AmountsTried :
          actionError(Working(gs, DefaultValues), playerId,
                      [type |-> t, amount |-> a]) = "ok" }

(* C27: getValidActions agrees with the legality check of                   *)
(* processPlayerAction: for the player to act it returns exactly the kinds  *)
(* processPlayerAction would accept for at least one amount, and it returns *)
(* the empty set for a player who is not to act, is folded or is all-in     *)
C27_ValidActionsAgree ==
    \A playerId \in PlayerIds \cup {UnknownId} :
        getValidActions(Working(gameState, DefaultValues), playerId)
          = AcceptedKinds(gameState, playerId)

(* ================================ cards ================================= *)
(* deck.ts at the level of single cards. The specifications below keep the  *)
(* operation in progress in gameState and leave the other variables idle.   *)
suits == <<"hearts", "diamonds", "clubs", "spades">>

ranks == <<"A", "2", "3", "4", "5", "6", "7", "8", "9", "T", "J", "Q", "K">>

(* createDeck over the first nSuits suits and the first nRanks ranks: the   *)
(* nested loops push suit by suit, rank by rank                             *)
createDeckOf(nSuits, nRanks) ==
    [k \in 1..(nSuits * nRanks) |->
        [suit |-> suits[((k - 1) \div nRanks) + 1],
         rank |-> ranks[((k - 1) % nRanks) + 1]]]

createDeck == createDeckOf(Len(suits), Len(ranks))

(* [shuffled[i], shuffled[j]] = [shuffled[j], shuffled[i]], 0-based i, j     *)
swap_OverwritesOnly(shuffled, i, j) ==
    [shuffled EXCEPT ![i + 1] = shuffled[j + 1]]

swap(shuffled, i, j) ==
    [shuffled EXCEPT ![i + 1] = shuffled[j + 1], ![j + 1] = shuffled[i + 1]]

(* -------------------------- shuffleDeck, step by step ------------------- *)
ShuffleSuits == 2
ShuffleRanks == 3

(* const shuffled = [...deck]; i = shuffled.length - 1                      *)
InitShuffle ==
    /\ gameState = [deck |-> createDeckOf(ShuffleSuits, ShuffleRanks),
                    shuffled |-> createDeckOf(ShuffleSuits, ShuffleRanks),
                    i |-> ShuffleSuits * ShuffleRanks - 1,
                    returned |-> FALSE]
    /\ evals = NoEvals
    /\ call = NoCall
    /\ exec = NoExec
    /\ settle = NoSettle

(* one turn of the loop: j = floor(Math.random() * (i + 1)) is any of 0..i *)
ShuffleStep ==
    /\ ~gameState.returned
    /\ gameState.i > 0
    /\ \E j \in 0..gameState.i :
          gameState' = [gameState EXCEPT
                           !.shuffled = swap(gameState.shuffled, gameState.i, j),
                           !.i = gameState.i - 1]
    /\ UNCHANGED <<evals, call, exec, settle>>

(* return shuffled                                                          *)
ShuffleReturn ==
    /\ ~gameState.returned
    /\ gameState.i = 0
    /\ gameState' = [gameState EXCEPT !.returned = TRUE]
    /\ UNCHANGED <<evals, call, exec, settle>>

NextShuffle == ShuffleStep \/ ShuffleReturn

SpecShuffle == InitShuffle /\ [][NextShuffle]_vars

(* s holds every entry of t exactly once and nothing else                   *)
IsPermutationOf(s, t) ==
    /\ Len(s) = Len(t)
    /\ \A k \in 1..Len(t) : Cardinality({ h \in 1..Len(s) : s[h] = t[k] }) = 1

(* every (suit, rank) pair of the deck's suits and ranks occurs in s        *)
(* exactly once                                                             *)
EachPairOnce(s, nSuits, nRanks) ==
    \A a \in 1..nSuits, b \in 1..nRanks :
        Cardinality({ h \in 1..Len(s) :
                        s[h] = [suit |-> suits[a], rank |-> ranks[b]] }) = 1

(* C28: for every outcome of the random choices shuffleDeck(createDeck())   *)
(* returns a permutation of the canonical cards, as many entries as the     *)
(* deck has with each (suit, rank) pair exactly once, and the deck passed   *)
(* in is not modified; the full deck has 52 cards                           *)
C28_ShuffleIsPermutation ==
    /\ Len(createDeck) = DeckSize
    /\ EachPairOnce(createDeck, Len(suits), Len(ranks))
    /\ gameState.returned =>
          /\ Len(gameState.shuffled) = ShuffleSuits * ShuffleRanks
          /\ EachPairOnce(gameState.shuffled, ShuffleSuits, ShuffleRanks)
          /\ IsPermutationOf(gameState.shuffled, gameState.deck)
          /\ gameState.deck = createDeckOf(ShuffleSuits, ShuffleRanks)

(* a shuffle has returned a deck in which no card kept its place            *)
C28_Witness ==
    /\ gameState.returned
    /\ \A k \in 1..Len(gameState.deck) : gameState.shuffled[k] # gameState.deck[k]

(* ------------------------- dealing, card by card ------------------------ *)
DealPlayers == 4
ShuffleSeeds == 5

(* the outcomes of Math.random() taken for the decks dealt from: a          *)
(* deterministic stand-in source per seed                                   *)
Seeds == [a : 0..(ShuffleSeeds - 1), b : 0..(ShuffleSeeds - 1)]

randomIndex(seed, i) == (seed.a * (i \div 2) + seed.b) % (i + 1)

RECURSIVE shuffleFrom(_, _, _)
shuffleFrom(shuffled, i, seed) ==
    IF i > 0
    THEN shuffleFrom(swap(shuffled, i, randomIndex(seed, i)), i - 1, seed)
    ELSE shuffled

shuffleDeck(deck, seed) == shuffleFrom(deck, Len(deck) - 1, seed)

(* deck.splice(0, count) that leaves the deck as it was                     *)
dealCardsFromDeck_LeavesDeck(deck, count) ==
    [dealt |-> SubSeq(deck, 1, count), deck |-> deck]

(* dealCards of deck.ts: deck.splice(0, count) returns the first count      *)
(* cards and removes them from the deck                                     *)
dealCardsFromDeck(deck, count) ==
    [dealt |-> SubSeq(deck, 1, count), deck |-> SubSeq(deck, count + 1, Len(deck))]

(* dealHoleCards of deck.ts: one card at a time to each player in turn;     *)
(* k counts the cards dealt so far                                          *)
RECURSIVE dealHoleCardsFromDeck(_, _, _, _)
dealHoleCardsFromDeck(deck, hands, k, cardsPerPlayer) ==
    IF k >= Len(hands) * cardsPerPlayer THEN [hands |-> hands, deck |-> deck]
    ELSE LET d == dealCardsFromDeck(deck, 1)
             player == (k % Len(hands)) + 1
         IN dealHoleCardsFromDeck(d.deck,
                                  [hands EXCEPT ![player] = @ \o d.dealt],
                                  k + 1, cardsPerPlayer)

(* startNewHand as far as the cards go: fresh shuffled deck, two hole cards *)
(* for each of n players                                                    *)
startNewHandCards(n, seed) ==
    LET dealt == dealHoleCardsFromDeck(shuffleDeck(createDeck, seed),
                                       [p \in 1..n |-> <<>>], 0, 2)
    IN [deck |-> dealt.deck,
        holeCards |-> dealt.hands,
        communityCards |-> <<>>,
        burned |-> <<>>,
        currentBettingRound |-> "preflop"]

(* dealFlop / dealTurn / dealRiver: burn one card, then reveal              *)
dealStreetCards(t, reveal, round) ==
    LET burn == dealCardsFromDeck(t.deck, 1)
        street == dealCardsFromDeck(burn.deck, reveal)
    IN [t EXCEPT !.deck = street.deck,
                 !.burned = @ \o burn.dealt,
                 !.communityCards = @ \o street.dealt,
                 !.currentBettingRound = round]

InitDeal ==
    /\ \E n \in 2..DealPlayers, seed \in Seeds :
          gameState = startNewHandCards(n, seed)
    /\ evals = NoEvals
    /\ call = NoCall
    /\ exec = NoExec
    /\ settle = NoSettle

DealFlop ==
    /\ gameState.currentBettingRound = "preflop"
    /\ gameState' = dealStreetCards(gameState, 3, "flop")
    /\ UNCHANGED <<evals, call, exec, settle>>

DealTurn ==
    /\ gameState.currentBettingRound = "flop"
    /\ gameState' = dealStreetCards(gameState, 1, "turn")
    /\ UNCHANGED <<evals, call, exec, settle>>

DealRiver ==
    /\ gameState.currentBettingRound = "turn"
    /\ gameState' = dealStreetCards(gameState, 1, "river")
    /\ UNCHANGED <<evals, call, exec, settle>>

(* the next hand of the same players, from any street                       *)
DealNextHand ==
    /\ \E seed \in Seeds :
          gameState' = startNewHandCards(Len(gameState.holeCards), seed)
    /\ UNCHANGED <<evals, call, exec, settle>>

NextDeal == DealFlop \/ DealTurn \/ DealRiver \/ DealNextHand

SpecDeal == InitDeal /\ [][NextDeal]_vars

RECURSIVE Flatten(_)
Flatten(ss) == IF Len(ss) = 0 THEN <<>> ELSE Head(ss) \o Flatten(Tail(ss))

(* C29: during a hand no card is dealt twice: the hole cards of all the     *)
(* players, the community cards, the burned cards and the remaining deck    *)
(* are pairwise disjoint and together are exactly the 52 cards; a hand of N *)
(* players that reaches the river has taken 2N + 5 dealt cards and 3 burn   *)
(* cards from the deck                                                      *)
C29_NoCardDealtTwice ==
    LET t == gameState
        n == Len(t.holeCards)
    IN /\ IsPermutationOf(Flatten(t.holeCards) \o t.communityCards
                            \o t.burned \o t.deck, createDeck)
       /\ \A p \in 1..n : Len(t.holeCards[p]) = 2
       /\ t.currentBettingRound = "river" =>
             /\ Len(t.communityCards) = 5
             /\ Len(t.burned) = 3
             /\ Len(t.deck) = DeckSize - (2 * n + 5) - 3

(* a hand of three players has reached the river                            *)
C29_Witness ==
    /\ Len(gameState.holeCards) = 3
    /\ gameState.currentBettingRound = "river"
    /\ Len(gameState.deck) = DeckSize - 14

(* ------------------------------------------------------------------------ *)
(* hand evaluation: hand-evaluator.ts. A hand is a sequence of cards; an     *)
(* evaluation keeps the fields rank and value of HandEvaluation              *)
(* (description and cards are display data)                                  *)
(* ------------------------------------------------------------------------ *)

HandRank ==
    [HIGH_CARD |-> 1, PAIR |-> 2, TWO_PAIR |-> 3, THREE_OF_A_KIND |-> 4,
     STRAIGHT |-> 5, FLUSH |-> 6, FULL_HOUSE |-> 7, FOUR_OF_A_KIND |-> 8,
     STRAIGHT_FLUSH |-> 9, ROYAL_FLUSH |-> 10]

CATEGORY_BASE == 1000000000

(* the number category * CATEGORY_BASE + encoded. The program computes it   *)
(* in double precision, where it is exact; here it is written with two      *)
(* digits in base CATEGORY_BASE, hi * CATEGORY_BASE + lo with               *)
(* 0 <= lo < CATEGORY_BASE, so that equal numbers are equal records         *)
strength(category, encoded) ==
    [hi |-> category + (encoded \div CATEGORY_BASE),
     lo |-> encoded % CATEGORY_BASE]

(* a.value > b.value on such numbers                                        *)
greaterValue(a, b) == a.hi > b.hi \/ (a.hi = b.hi /\ a.lo > b.lo)

HandOf(category, encoded) ==
    [rank |-> category, value |-> strength(category, encoded)]

(* the null a checker returns when the hand is not of its category          *)
NoHand == [rank |-> 0, value |-> [hi |-> 0, lo |-> 0]]

rankToValue(rank) ==
    CASE rank = "A" -> 14
      [] rank = "K" -> 13
      [] rank = "Q" -> 12
      [] rank = "J" -> 11
      [] rank = "T" -> 10
      [] OTHER -> CHOOSE v \in 2..9 : ranks[v] = rank

(* the reduce with two decimal digits per rank instead of base 15           *)
RECURSIVE encodeFrom_Base100(_, _)
encodeFrom_Base100(arr, acc) ==
    IF arr = <<>> THEN acc ELSE encodeFrom_Base100(Tail(arr), acc * 100 + Head(arr))

(* arr.reduce((acc, v) => acc * 15 + v, 0)                                  *)
RECURSIVE encodeFrom(_, _)
encodeFrom(arr, acc) ==
    IF arr = <<>> THEN acc ELSE encodeFrom(Tail(arr), acc * 15 + Head(arr))

encode(arr) == encodeFrom(arr, 0)

(* numbers.sort((a, b) => a - b), duplicates kept                           *)
RECURSIVE sortNumbersAsc(_)
sortNumbersAsc(arr) ==
    IF arr = <<>> THEN <<>>
    ELSE LET i == CHOOSE i \in 1..Len(arr) : \A j \in 1..Len(arr) : arr[i] <= arr[j]
         IN <<arr[i]>> \o sortNumbersAsc(SubSeq(arr, 1, i - 1) \o SubSeq(arr, i + 1, Len(arr)))

Reverse(arr) == [k \in 1..Len(arr) |-> arr[Len(arr) + 1 - k]]

sortNumbersDesc(arr) == Reverse(sortNumbersAsc(arr))

(* arr.slice(0, n)                                                          *)
slice(arr, n) == SubSeq(arr, 1, Min(n, Len(arr)))

(* arr[k] || fallback, 0-based k: a missing element is undefined            *)
elementOr(arr, k, fallback) == IF k + 1 <= Len(arr) THEN arr[k + 1] ELSE fallback

(* cards.map(card => rankToValue(card.rank))                                *)
cardValues(cards) == [i \in 1..Len(cards) |-> rankToValue(cards[i].rank)]

getRankCounts(cards) ==
    [r \in { cards[i].rank : i \in 1..Len(cards) } |->
        Cardinality({ i \in 1..Len(cards) : cards[i].rank = r })]

(* cards.every(card => card.suit === cards[0].suit)                         *)
isFlush(cards) == \A i \in 1..Len(cards) : cards[i].suit = cards[1].suit

(* the values of the ranks that occur exactly count times, descending       *)
ranksWithCount(cards, count) ==
    LET rankCounts == getRankCounts(cards)
    IN Reverse(SortAsc({ rankToValue(r) : r \in { q \in DOMAIN rankCounts : rankCounts[q] = count } }))

(* the values of the ranks other than the one of value v, descending        *)
otherRanks(cards, v) ==
    LET rankCounts == getRankCounts(cards)
    IN Reverse(SortAsc({ rankToValue(r) : r \in DOMAIN rankCounts } \ {v}))

checkRoyalFlush(cards) ==
    LET ranksSet == { cards[i].rank : i \in 1..Len(cards) }
        isRoyal == \A r \in {"T", "J", "Q", "K", "A"} : r \in ranksSet
    IN IF ~isFlush(cards) THEN NoHand
       ELSE IF ~isRoyal THEN NoHand
       ELSE HandOf(HandRank.ROYAL_FLUSH, 14)

(* checkStraight with the wheel valued by its ace                           *)
checkStraight_WheelAceHigh(cards) ==
    LET values == sortNumbersAsc(cardValues(cards))
        isStraight == \A i \in 2..Len(values) : values[i] = values[i - 1] + 1
        aceLowValues ==
            sortNumbersAsc([i \in 1..Len(cards) |->
                IF cards[i].rank = "A" THEN 1 ELSE rankToValue(cards[i].rank)])
    IN IF isStraight THEN HandOf(HandRank.STRAIGHT, values[Len(values)])
       ELSE IF aceLowValues = <<1, 2, 3, 4, 5>> THEN HandOf(HandRank.STRAIGHT, 14)
       ELSE NoHand

checkStraight(cards) ==
    LET values == sortNumbersAsc(cardValues(cards))
        isStraight == \A i \in 2..Len(values) : values[i] = values[i - 1] + 1
        aceLowValues ==
            sortNumbersAsc([i \in 1..Len(cards) |->
                IF cards[i].rank = "A" THEN 1 ELSE rankToValue(cards[i].rank)])
    IN IF isStraight THEN HandOf(HandRank.STRAIGHT, values[Len(values)])
       ELSE IF aceLowValues = <<1, 2, 3, 4, 5>> THEN HandOf(HandRank.STRAIGHT, 5)
       ELSE NoHand

(* straight.value - HandRank.STRAIGHT * CATEGORY_BASE is the high card of   *)
(* the straight; HandRank.STRAIGHT_FLUSH * CATEGORY_BASE is added to it     *)
checkStraightFlush(cards) ==
    LET straight == checkStraight(cards)
    IN IF ~isFlush(cards) THEN NoHand
       ELSE IF straight = NoHand THEN NoHand
       ELSE [rank |-> HandRank.STRAIGHT_FLUSH,
             value |-> [hi |-> HandRank.STRAIGHT_FLUSH + (straight.value.hi - HandRank.STRAIGHT),
                        lo |-> straight.value.lo]]

checkFourOfAKind(cards) ==
    LET quadRank == ranksWithCount(cards, 4)
    IN IF quadRank = <<>> THEN NoHand
       ELSE HandOf(HandRank.FOUR_OF_A_KIND,
                   encode(<<quadRank[1], otherRanks(cards, quadRank[1])[1]>>))

checkFullHouse(cards) ==
    LET tripleRank == ranksWithCount(cards, 3)
        pairRank == ranksWithCount(cards, 2)
    IN IF tripleRank = <<>> \/ pairRank = <<>> THEN NoHand
       ELSE HandOf(HandRank.FULL_HOUSE, encode(<<tripleRank[1], pairRank[1]>>))

checkFlush(cards) ==
    IF ~isFlush(cards) THEN NoHand
    ELSE IF checkStraight(cards) # NoHand THEN NoHand
    ELSE HandOf(HandRank.FLUSH, encode(sortNumbersDesc(cardValues(cards))))

checkThreeOfAKind(cards) ==
    LET tripleRank == ranksWithCount(cards, 3)
    IN IF tripleRank = <<>> THEN NoHand
       ELSE LET kickers == otherRanks(cards, tripleRank[1])
            IN HandOf(HandRank.THREE_OF_A_KIND,
                      encode(<<tripleRank[1], kickers[1], kickers[2]>>))

checkTwoPair(cards) ==
    LET pairValues == ranksWithCount(cards, 2)
    IN IF Len(pairValues) # 2 THEN NoHand
       ELSE HandOf(HandRank.TWO_PAIR,
                   encode(<<pairValues[1], pairValues[2], ranksWithCount(cards, 1)[1]>>))

checkOnePair(cards) ==
    LET pairRank == ranksWithCount(cards, 2)
    IN IF pairRank = <<>> THEN NoHand
       ELSE LET kickers == otherRanks(cards, pairRank[1])
            IN HandOf(HandRank.PAIR,
                      encode(<<pairRank[1], kickers[1], kickers[2], kickers[3]>>))

checkHighCard(cards) ==
    HandOf(HandRank.HIGH_CARD, encode(sortNumbersDesc(cardValues(cards))))

(* the checkers in order, strongest category first: the first that does not *)
(* return null is the evaluation                                            *)
evaluateFiveCards(cards) ==
    LET royalFlush == checkRoyalFlush(cards) IN
    IF royalFlush # NoHand THEN royalFlush ELSE
    LET straightFlush == checkStraightFlush(cards) IN
    IF straightFlush # NoHand THEN straightFlush ELSE
    LET fourOfAKind == checkFourOfAKind(cards) IN
    IF fourOfAKind # NoHand THEN fourOfAKind ELSE
    LET fullHouse == checkFullHouse(cards) IN
    IF fullHouse # NoHand THEN fullHouse ELSE
    LET flush == checkFlush(cards) IN
    IF flush # NoHand THEN flush ELSE
    LET straight == checkStraight(cards) IN
    IF straight # NoHand THEN straight ELSE
    LET threeOfAKind == checkThreeOfAKind(cards) IN
    IF threeOfAKind # NoHand THEN threeOfAKind ELSE
    LET twoPair == checkTwoPair(cards) IN
    IF twoPair # NoHand THEN twoPair ELSE
    LET onePair == checkOnePair(cards) IN
    IF onePair # NoHand THEN onePair ELSE
    checkHighCard(cards)

(* the k-element sub-arrays of array, each in the order of array            *)
generateCombinations(array, k) ==
    { [i \in 1..k |-> array[SortAsc(chosen)[i]]] :
        chosen \in { c \in SUBSET (1..Len(array)) : Cardinality(c) = k } }

(* the combination of greatest value; combinations of equal value have the  *)
(* same rank and value, so the one the loop meets first is not singled out  *)
findBestHand(cards) ==
    LET evaluations == { evaluateFiveCards(combination) :
                            combination \in generateCombinations(cards, 5) }
    IN CHOOSE bestHand \in evaluations :
          \A evaluation \in evaluations : ~greaterValue(evaluation.value, bestHand.value)

(* the loop of findStraightHigh over withWheel, i 1-based                   *)
RECURSIVE straightRun(_, _, _, _)
straightRun(withWheel, i, run, bestHigh) ==
    IF i > Len(withWheel) THEN bestHigh
    ELSE IF withWheel[i] = withWheel[i - 1] + 1
         THEN straightRun(withWheel, i + 1, run + 1,
                          IF run + 1 >= 5 THEN withWheel[i] ELSE bestHigh)
    ELSE IF withWheel[i] # withWheel[i - 1]
         THEN straightRun(withWheel, i + 1, 1, bestHigh)
    ELSE straightRun(withWheel, i + 1, run, bestHigh)

(* findStraightHigh without the ace counted low                             *)
findStraightHigh_AceHighOnly(valuesAsc) ==
    IF Len(valuesAsc) < 5 THEN 0
    ELSE straightRun(valuesAsc, 2, 1, 0)

(* the high card of the best straight in the distinct ascending values, 0   *)
(* for null                                                                 *)
findStraightHigh(valuesAsc) ==
    IF Len(valuesAsc) < 5 THEN 0
    ELSE LET withWheel == IF \E i \in 1..Len(valuesAsc) : valuesAsc[i] = 14
                          THEN <<1>> \o valuesAsc ELSE valuesAsc
         IN straightRun(withWheel, 2, 1, 0)

evaluateSevenCards(cards) ==
    LET bySuit == [s \in { suits[k] : k \in 1..Len(suits) } |->
                      SelectSeq(cards, LAMBDA c : c.suit = s)]
        rankCounts == [v \in { rankToValue(cards[i].rank) : i \in 1..Len(cards) } |->
                          Cardinality({ i \in 1..Len(cards) : rankToValue(cards[i].rank) = v })]
        uniqueValuesAsc == SortAsc(DOMAIN rankCounts)
        uniqueValuesDesc == Reverse(uniqueValuesAsc)
        flushSuits == { k \in 1..Len(suits) : Len(bySuit[suits[k]]) >= 5 }
        hasFlushSuit == flushSuits # {}
        flushSuit == suits[CHOOSE k \in flushSuits : \A other \in flushSuits : k <= other]
        flushValues == { rankToValue(bySuit[flushSuit][i].rank) : i \in 1..Len(bySuit[flushSuit]) }
        sfHigh == IF hasFlushSuit THEN findStraightHigh(SortAsc(flushValues)) ELSE 0
        quads == SelectSeq(uniqueValuesDesc, LAMBDA v : rankCounts[v] = 4)
        tripsDesc == SelectSeq(uniqueValuesDesc, LAMBDA v : rankCounts[v] >= 3)
        pairsDesc == SelectSeq(uniqueValuesDesc, LAMBDA v : rankCounts[v] >= 2)
        pairCandidates == SelectSeq(pairsDesc, LAMBDA v : v # tripsDesc[1])
        straightHigh == findStraightHigh(uniqueValuesAsc)
    IN IF sfHigh # 0
       THEN HandOf(IF sfHigh = 14 THEN HandRank.ROYAL_FLUSH ELSE HandRank.STRAIGHT_FLUSH,
                   encode(slice(<<sfHigh>>, 1)))
       ELSE IF quads # <<>>
       THEN HandOf(HandRank.FOUR_OF_A_KIND,
                   quads[1] * 15
                     + elementOr(SelectSeq(uniqueValuesDesc, LAMBDA v : v # quads[1]), 0, 2))
       ELSE IF Len(tripsDesc) >= 1 /\ Len(pairCandidates) >= 1
       THEN HandOf(HandRank.FULL_HOUSE, tripsDesc[1] * 15 + pairCandidates[1])
       ELSE IF Len(tripsDesc) >= 2
       THEN HandOf(HandRank.FULL_HOUSE, tripsDesc[1] * 15 + tripsDesc[2])
       ELSE IF hasFlushSuit
       THEN HandOf(HandRank.FLUSH, encode(slice(Reverse(SortAsc(flushValues)), 5)))
       ELSE IF straightHigh # 0
       THEN HandOf(HandRank.STRAIGHT, straightHigh)
       ELSE IF Len(tripsDesc) >= 1
       THEN LET kickers == slice(SelectSeq(uniqueValuesDesc, LAMBDA v : v # tripsDesc[1]), 2)
            IN HandOf(HandRank.THREE_OF_A_KIND,
                      encode(<<tripsDesc[1], elementOr(kickers, 0, 0), elementOr(kickers, 1, 0)>>))
       ELSE IF Len(pairsDesc) >= 2
       THEN HandOf(HandRank.TWO_PAIR,
                   encode(<<pairsDesc[1], pairsDesc[2],
                            elementOr(SelectSeq(uniqueValuesDesc,
                                LAMBDA v : v # pairsDesc[1] /\ v # pairsDesc[2]), 0, 0)>>))
       ELSE IF Len(pairsDesc) = 1
       THEN LET kickers == slice(SelectSeq(uniqueValuesDesc, LAMBDA v : v # pairsDesc[1]), 3)
            IN HandOf(HandRank.PAIR,
                      encode(<<pairsDesc[1], elementOr(kickers, 0, 0),
                               elementOr(kickers, 1, 0), elementOr(kickers, 2, 0)>>))
       ELSE HandOf(HandRank.HIGH_CARD, encode(slice(uniqueValuesDesc, 5)))

(* evaluateHand of at least five cards (fewer throw)                        *)
evaluateHand(cards) ==
    IF Len(cards) = 5 THEN evaluateFiveCards(cards) ELSE evaluateSevenCards(cards)

(* ------------------------------------------------------------------------ *)
(* the evaluators on hands drawn from a part of the deck                    *)
(* ------------------------------------------------------------------------ *)

(* the cards the hands are drawn from, in the order of createDeck: the      *)
(* hearts that make the wheel, the six-high and the ace-high straight, all  *)
(* four aces, three deuces and a second king for the sets, the pairs and    *)
(* the straights of mixed suits                                             *)
EvalCards ==
    SelectSeq(createDeck, LAMBDA c :
        \/ c.suit = "hearts" /\ c.rank \in {"A", "2", "3", "4", "5", "6", "T", "J", "Q", "K"}
        \/ c.rank = "A"
        \/ c.suit \in {"diamonds", "spades"} /\ c.rank = "2"
        \/ c.suit = "spades" /\ c.rank = "K")

(* two hole cards and five community cards                                  *)
MaxHandCards == 7

NotEvaluated == [cards |-> <<>>, last |-> 0, evaluated |-> FALSE,
                 evaluation |-> NoHand, best |-> NoHand]

InitEval ==
    /\ gameState = NotEvaluated
    /\ evals = NoEvals
    /\ call = NoCall
    /\ exec = NoExec
    /\ settle = NoSettle

(* one more card of the hand, the cards taken in the order of the deck      *)
DrawCard ==
    /\ ~gameState.evaluated
    /\ Len(gameState.cards) < MaxHandCards
    /\ \E k \in (gameState.last + 1)..Len(EvalCards) :
          gameState' = [gameState EXCEPT !.cards = Append(gameState.cards, EvalCards[k]),
                                         !.last = k]
    /\ UNCHANGED <<evals, call, exec, settle>>

(* evaluateHand on the hand, and findBestHand on the same cards             *)
EvaluateHand ==
    /\ ~gameState.evaluated
    /\ Len(gameState.cards) >= 5
    /\ \E evaluation \in {evaluateHand(gameState.cards)} :
       \E best \in {findBestHand(gameState.cards)} :
          gameState' = [gameState EXCEPT !.evaluated = TRUE,
                                         !.evaluation = evaluation,
                                         !.best = best]
    /\ UNCHANGED <<evals, call, exec, settle>>

NextEval == DrawCard \/ EvaluateHand

SpecEval == InitEval /\ [][NextEval]_vars

(* C30: for every hand of 6 or 7 distinct cards, evaluateHand (the direct   *)
(* classifier evaluateSevenCards) returns the same category and the same    *)
(* strength value as the strongest of the evaluations of its 5-card         *)
(* subsets by evaluateFiveCards (findBestHand)                              *)
C30_SevenCardsAgreeWithBestOfFive ==
    (gameState.evaluated /\ Len(gameState.cards) \in {6, 7}) =>
        /\ gameState.evaluation = evaluateSevenCards(gameState.cards)
        /\ gameState.evaluation.rank = gameState.best.rank
        /\ gameState.evaluation.value = gameState.best.value

(* a seven-card hand holding the wheel in hearts and a pair of aces has     *)
(* been evaluated as a five-high straight flush                             *)
C30_Witness ==
    /\ gameState.evaluated
    /\ Len(gameState.cards) = 7
    /\ gameState.evaluation.rank = HandRank.STRAIGHT_FLUSH
    /\ gameState.evaluation.value = strength(HandRank.STRAIGHT_FLUSH, 5)
    /\ gameState.best = gameState.evaluation

(* the greatest encoding of five ranks in 2..14                              *)
GreatestEncoding == encode(<<14, 14, 14, 14, 14>>)

Categories == { HandRank[name] : name \in DOMAIN HandRank }

(* an evaluation of category e.rank is above every value of a lower         *)
(* category and below every value of a higher one, whatever their encoding  *)
BetweenCategories(e) ==
    /\ e.rank \in Categories
    /\ e.value.hi = e.rank
    /\ e.value.lo <= GreatestEncoding
    /\ \A c \in Categories :
          /\ c < e.rank => greaterValue(e.value, strength(c, GreatestEncoding))
          /\ c > e.rank => greaterValue(strength(c, 0), e.value)

(* C31: the strength of an evaluated hand of 5 to 7 cards is above every    *)
(* strength of a lower category and below every strength of a higher one,   *)
(* whatever the kickers, because the base-15 encoding of up to five ranks   *)
(* stays below CATEGORY_BASE; this holds for evaluateHand's result and for  *)
(* the best five-card evaluation alike                                      *)
C31_CategoryDominatesKickers ==
    /\ GreatestEncoding < CATEGORY_BASE
    /\ gameState.evaluated =>
          /\ BetweenCategories(gameState.evaluation)
          /\ BetweenCategories(gameState.best)

(* a seven-card hand of no pair, straight or flush has been evaluated as    *)
(* ace high with the kickers K J T 6                                        *)
C31_Witness ==
    /\ gameState.evaluated
    /\ Len(gameState.cards) = 7
    /\ gameState.evaluation = HandOf(HandRank.HIGH_CARD, encode(<<14, 13, 11, 10, 6>>))

(* the rank values held in a hand, and the number of aces                   *)
ValuesHeld(cards) == { rankToValue(cards[i].rank) : i \in 1..Len(cards) }

Aces(cards) == Cardinality({ i \in 1..Len(cards) : cards[i].rank = "A" })

(* the suits of which the hand holds five cards or more                     *)
FlushSuits(cards) ==
    { u \in { suits[k] : k \in 1..Len(suits) } :
        Cardinality({ i \in 1..Len(cards) : cards[i].suit = u }) >= 5 }

(* the wheel is the best five cards of the hand: A 2 3 4 5 are held, no 6   *)
(* extends the straight and no five cards are of one suit (a hand of at     *)
(* most seven cards that holds five ranks in a row has no full house and    *)
(* no four of a kind)                                                       *)
WheelIsBest(cards) ==
    /\ {14, 2, 3, 4, 5} \subseteq ValuesHeld(cards)
    /\ 6 \notin ValuesHeld(cards)
    /\ FlushSuits(cards) = {}

(* the k-th base-15 digit of an encoding, digit 0 the last rank encoded      *)
Digit(encoded, k) == (encoded \div (15 ^ k)) % 15

(* the ace is counted as 14 in the rank that the encoding gives it          *)
AceCountsHigh(cards, e) ==
    LET aces == Aces(cards)
        encoded == e.value.lo
        held == ValuesHeld(cards)
        suited == { rankToValue(cards[i].rank) :
                      i \in { j \in 1..Len(cards) : cards[j].suit \in FlushSuits(cards) } }
    IN CASE e.rank = HandRank.HIGH_CARD -> aces = 1 => Digit(encoded, 4) = 14
         [] e.rank = HandRank.PAIR ->
                /\ aces = 2 => Digit(encoded, 3) = 14
                /\ aces = 1 => Digit(encoded, 2) = 14
         [] e.rank = HandRank.TWO_PAIR ->
                /\ aces = 2 => Digit(encoded, 2) = 14
                /\ aces = 1 => Digit(encoded, 0) = 14
         [] e.rank = HandRank.THREE_OF_A_KIND ->
                /\ aces = 3 => Digit(encoded, 2) = 14
                /\ aces = 1 => Digit(encoded, 1) = 14
         [] e.rank = HandRank.FULL_HOUSE ->
                /\ aces = 3 => Digit(encoded, 1) = 14
                /\ aces = 2 => Digit(encoded, 0) = 14
         [] e.rank = HandRank.FOUR_OF_A_KIND ->
                /\ aces = 4 => Digit(encoded, 1) = 14
                /\ aces \in 1..3 => Digit(encoded, 0) = 14
         [] e.rank = HandRank.FLUSH -> 14 \in suited => Digit(encoded, 4) = 14
         [] e.rank = HandRank.STRAIGHT ->
                /\ encoded \in 5..14
                /\ (encoded = 5) = WheelIsBest(cards)
                /\ encoded > 5 => \A v \in (encoded - 4)..encoded : v \in held
         [] e.rank = HandRank.STRAIGHT_FLUSH ->
                /\ encoded \in 5..13
                /\ encoded = 5 => {14, 2, 3, 4, 5} \subseteq suited
                /\ encoded > 5 => \A v \in (encoded - 4)..encoded : v \in suited
         [] e.rank = HandRank.ROYAL_FLUSH ->
                /\ encoded = 14
                /\ \A v \in 10..14 : v \in suited
         [] OTHER -> FALSE

(* the wheel of hearts with the ace of diamonds, and the six-high straight  *)
(* of hearts with the deuce of diamonds                                     *)
WheelHand ==
    <<[suit |-> "diamonds", rank |-> "A"], [suit |-> "hearts", rank |-> "2"],
      [suit |-> "hearts", rank |-> "3"], [suit |-> "hearts", rank |-> "4"],
      [suit |-> "hearts", rank |-> "5"]>>

SixHighHand ==
    <<[suit |-> "diamonds", rank |-> "2"], [suit |-> "hearts", rank |-> "3"],
      [suit |-> "hearts", rank |-> "4"], [suit |-> "hearts", rank |-> "5"],
      [suit |-> "hearts", rank |-> "6"]>>

(* C32: a hand of 5, 6 or 7 cards whose best five cards are A 2 3 4 5 not   *)
(* of one suit evaluates as a Straight of high card 5, and only such a hand *)
(* does; that strength is below the strength of the straight 2 3 4 5 6 and  *)
(* above the strength of every hand of a lower category; in every other     *)
(* hand the ace counts as 14                                                *)
C32_WheelIsFiveHighStraight ==
    /\ evaluateHand(WheelHand) = HandOf(HandRank.STRAIGHT, 5)
    /\ evaluateHand(SixHighHand) = HandOf(HandRank.STRAIGHT, 6)
    /\ greaterValue(evaluateHand(SixHighHand).value, evaluateHand(WheelHand).value)
    /\ (gameState.evaluated /\ Len(gameState.cards) \in 5..7) =>
          /\ WheelIsBest(gameState.cards) <=>
                gameState.evaluation = HandOf(HandRank.STRAIGHT, 5)
          /\ gameState.evaluation.rank < HandRank.STRAIGHT =>
                greaterValue(evaluateHand(WheelHand).value, gameState.evaluation.value)
          /\ AceCountsHigh(gameState.cards, gameState.evaluation)

(* a seven-card hand that holds the wheel, a second ace and a king has been *)
(* evaluated as the five-high straight                                      *)
C32_Witness ==
    /\ gameState.evaluated
    /\ Len(gameState.cards) = 7
    /\ Aces(gameState.cards) = 2
    /\ 13 \in ValuesHeld(gameState.cards)
    /\ WheelIsBest(gameState.cards)
    /\ gameState.evaluation = HandOf(HandRank.STRAIGHT, 5)

(* the seats of the settled hand that contend for a pot: not folded and     *)
(* eligible; those of them whose strength is the greatest                   *)
PotContenders(sidePot) ==
    { i \in 1..Len(settle.players) :
        /\ ~settle.players[i].isFolded
        /\ settle.players[i].id \in SeqToSet(sidePot.eligiblePlayers) }

TiedForBest(sidePot) ==
    { i \in PotContenders(sidePot) :
        \A j \in PotContenders(sidePot) :
            evals[settle.players[j].id] <= evals[settle.players[i].id] }

(* the equal shares, rounded down, of the pots a seat is tied for           *)
ShareDue(i) ==
    SumSeq([k \in 1..Len(gameState.sidePots) |->
        IF i \in TiedForBest(gameState.sidePots[k])
        THEN gameState.sidePots[k].amount
                \div Cardinality(TiedForBest(gameState.sidePots[k]))
        ELSE 0])

(* C33: at a showdown every eligible player tied for the best strength in   *)
(* a pot is among the winners and is paid at least the equal share of each  *)
(* pot they are tied for; a player who is best in no pot is paid nothing    *)
C33_TiedWinnersShare ==
    EndedAtShowdown =>
        \A i \in 1..Len(settle.players) :
            LET id == settle.players[i].id
                paid == { k \in 1..Len(gameState.winners) : gameState.winners[k].playerId = id }
            IN IF \E k \in 1..Len(gameState.sidePots) : i \in TiedForBest(gameState.sidePots[k])
               THEN /\ Cardinality(paid) = 1
                    /\ \A k \in paid : gameState.winners[k].amount >= ShareDue(i)
               ELSE paid = {}

(* a showdown in which two players tied for a pot and both were paid        *)
C33_Witness ==
    /\ EndedAtShowdown
    /\ \E k \in 1..Len(gameState.sidePots) :
          Cardinality(TiedForBest(gameState.sidePots[k])) >= 2
    /\ Cardinality({ k \in 1..Len(gameState.winners) : gameState.winners[k].amount > 0 }) >= 2

(* this step is a processPlayerAction call on a hand that is complete       *)
ActionAfterCompletion ==
    /\ vars' # vars
    /\ gameState.isHandComplete
    /\ call'.op = "processPlayerAction"

(* C34: once a hand is complete every processPlayerAction call is rejected  *)
(* and leaves the state as it was, so the hand is not settled again and its *)
(* pot is not paid out a second time                                        *)
C34_CompleteHandRejectsActions ==
    [][ActionAfterCompletion =>
          /\ call'.result # "ok"
          /\ gameState' = gameState
          /\ ~settle'.done]_vars

(* the chips of the players at the table (a player removed as busted held   *)
(* none) plus the pot of a hand in progress; the pot of a complete hand has *)
(* been paid out                                                            *)
ChipsInPlay(gs) ==
    SumChips(gs.players) + (IF gs.isHandComplete THEN 0 ELSE gs.pot)

(* this step is a startNewHand or a processPlayerAction call                *)
CommandStep ==
    /\ vars' # vars
    /\ call'.op \in {"startNewHand", "processPlayerAction"}

(* C35: no startNewHand or processPlayerAction call changes the number of   *)
(* chips in play, so it stays the sum of the stacks the table was created   *)
(* with                                                                     *)
C35_ChipsAreConserved ==
    [][CommandStep => ChipsInPlay(gameState') = ChipsInPlay(gameState)]_vars

(* ------------------------------------------------------------------------ *)
(* the same table with callers that start a hand at any time               *)
(* ------------------------------------------------------------------------ *)
StartNewHandAnyTime == startNewHandCall

NextAnyTime == ProcessPlayerAction \/ StartNewHandAnyTime

(* tables of two and three players, one blind level                        *)
InitAnyTime == InitTable({2, MaxPlayers}, {[small |-> 1, big |-> 2]})

SpecAnyTime == InitAnyTime /\ [][NextAnyTime]_vars

(* ------------------------------------------------------------------------ *)
(* one table whose players act whenever an action of theirs is accepted    *)
(* ------------------------------------------------------------------------ *)

(* a processPlayerAction call on a hand in progress that the engine accepts *)
AcceptedAction ==
    /\ ~gameState.isHandComplete
    /\ ProcessPlayerAction
    /\ call'.result = "ok"

(* a processPlayerAction call on a hand in progress that the engine rejects *)
RejectedAction ==
    /\ ~gameState.isHandComplete
    /\ ProcessPlayerAction
    /\ call'.result # "ok"

NextPlay == AcceptedAction \/ RejectedAction

(* the players go on acting as long as some action of theirs is accepted    *)
InitPlay == InitTable({2, MaxPlayers}, {[small |-> 1, big |-> 2]})

SpecPlay ==
    /\ InitPlay
    /\ [][NextPlay]_vars
    /\ WF_vars(AcceptedAction)

(* while a hand is in progress and somebody can act, some player who can    *)
(* act has not acted in the round or has not matched the table bet          *)
RoundStillOpen(gs) ==
    LET canAct == { i \in 1..Len(gs.players) :
                      /\ ~gs.players[i].disconnected
                      /\ ~gs.players[i].isFolded
                      /\ ~gs.players[i].isAllIn }
    IN (~gs.isHandComplete /\ canAct # {}) =>
          \E i \in canAct : \/ ~gs.players[i].hasActed
                            \/ gs.players[i].currentBet # gs.currentBet

(* C36: every hand terminates: when the players go on acting, the hand that *)
(* startNewHand began becomes complete after finitely many accepted         *)
(* actions; and a betting round in which every player who can act has acted *)
(* and owes nothing does not stay open                                      *)
C36_EveryHandTerminates ==
    /\ <>gameState.isHandComplete
    /\ []RoundStillOpen(gameState)

(* ------------------------------------------------------------------------ *)
(* the four-handed table with a deep stack that can raise and fold later    *)
(* ------------------------------------------------------------------------ *)

(* seatings (dealer, small blind, big blind, first to act) in which one     *)
(* player can raise over a caller and keep chips, next to short stacks      *)
DeepSeatings ==
    { <<5, 1, 3, 1>>, <<5, 1, 3, 3>>, <<3, 1, 5, 1>>, <<1, 3, 5, 1>> }

InitDeep == InitWideOf(DeepSeatings)

SpecDeep == InitDeep /\ [][NextWide]_vars

(* the greatest totalBet of the settled hand, the seats that put it in, and *)
(* the greatest totalBet of the other seats                                 *)
HighestTotalBet ==
    CHOOSE t \in { settle.players[i].totalBet : i \in 1..Len(settle.players) } :
        \A i \in 1..Len(settle.players) : settle.players[i].totalBet <= t

TopContributors ==
    { i \in 1..Len(settle.players) : settle.players[i].totalBet = HighestTotalBet }

SecondHighestTotalBet ==
    LET others == { settle.players[i].totalBet :
                      i \in (1..Len(settle.players)) \ TopContributors } \cup {0}
    IN CHOOSE t \in others : \A u \in others : u <= t

(* the bet nobody called: what the single highest contributor put in above  *)
(* the second highest contribution                                          *)
UncalledAmount ==
    IF Cardinality(TopContributors) = 1
    THEN HighestTotalBet - SecondHighestTotalBet ELSE 0

(* the chips a player of the settled hand holds now (a player removed as    *)
(* busted holds none), and what winners reports for the player              *)
ChipsNow(id) ==
    SumSeq([k \in 1..Len(gameState.players) |->
        IF gameState.players[k].id = id THEN gameState.players[k].chips ELSE 0])

AmountWon(id) ==
    SumSeq([k \in 1..Len(gameState.winners) |->
        IF gameState.winners[k].playerId = id THEN gameState.winners[k].amount ELSE 0])

(* C37: at a showdown the refund is exactly the part of the single highest  *)
(* contributor's totalBet above the second highest totalBet and goes to     *)
(* that contributor; everything else that was put in, the chips of folded   *)
(* players included, is awarded to players still in the hand                *)
C37_RefundIsExactlyUncalledBet ==
    (EndedAtShowdown /\ Cardinality(ContributionLevels) > 1) =>
        /\ settle.refund = UncalledAmount
        /\ SumAmount(gameState.winners) = SumTotalBet(settle.players) - UncalledAmount
        /\ \A i \in 1..Len(settle.players) :
              LET p == settle.players[i]
              IN /\ ChipsNow(p.id) = p.chips + AmountWon(p.id)
                        + (IF TopContributors = {i} THEN UncalledAmount ELSE 0)
                 /\ p.isFolded => AmountWon(p.id) = 0

(* the share of a pot due to seat i when the chips that do not divide are   *)
(* handed out one per winner, earliest seat first                           *)
EvenShare(sidePot, i) ==
    LET tied == TiedForBest(sidePot)
        k == Cardinality(tied)
        base == sidePot.amount \div k
        remainder == sidePot.amount - base * k
        before == Cardinality({ j \in tied : j < i })
    IN IF i \in tied
       THEN base + (IF before < remainder THEN 1 ELSE 0)
       ELSE 0

EvenShares(i) ==
    SumSeq([k \in 1..Len(gameState.sidePots) |-> EvenShare(gameState.sidePots[k], i)])

(* C38: at a showdown every winner of a pot is paid the pot divided by the  *)
(* number of its tied winners, rounded down, and the chips left over go one *)
(* each to the winners in seat order, so that two winners of the same pot   *)
(* never differ by more than one chip and the shares add up to the pot      *)
C38_RemainderOneChipPerWinner ==
    EndedAtShowdown =>
        /\ \A i \in 1..Len(settle.players) :
              AmountWon(settle.players[i].id) = EvenShares(i)
        /\ Len(gameState.sidePots) = 1 =>
              \A i, j \in TiedForBest(gameState.sidePots[1]) :
                  AmountWon(settle.players[i].id) - AmountWon(settle.players[j].id) <= 1

(* this step moved a hand in progress to the flop, the turn or the river    *)
StreetAdvance ==
    /\ vars' # vars
    /\ InProgress
    /\ ~gameState'.isHandComplete
    /\ gameState'.handNumber = gameState.handNumber
    /\ gameState'.currentBettingRound \in {"flop", "turn", "river"}
    /\ gameState'.currentBettingRound # gameState.currentBettingRound

(* C39: the advance to the flop, the turn or the river moves one street,    *)
(* sets every player's currentBet to 0 and hasActed to false and the table  *)
(* currentBet to 0, leaves every player's totalBet, chips, folded and       *)
(* all-in flags as the last action left them, and takes from the deck one   *)
(* burn card and the 3, 1 or 1 community cards of the street                *)
C39_StreetAdvanceResetsRound ==
    [][StreetAdvance =>
         LET before == IF exec'.done THEN exec'.state ELSE gameState
             reveal == IF gameState'.currentBettingRound = "flop" THEN 3 ELSE 1
         IN /\ RoundRank(gameState'.currentBettingRound)
                  = RoundRank(gameState.currentBettingRound) + 1
            /\ gameState'.currentBet = 0
            /\ Len(gameState'.players) = Len(before.players)
            /\ \A i \in 1..Len(before.players) :
                  LET p == gameState'.players[i]
                      q == before.players[i]
                  IN /\ p.currentBet = 0
                     /\ ~p.hasActed
                     /\ p.id = q.id
                     /\ p.totalBet = q.totalBet
                     /\ p.chips = q.chips
                     /\ p.isFolded = q.isFolded
                     /\ p.isAllIn = q.isAllIn
            /\ gameState'.communityCards = before.communityCards + reveal
            /\ gameState'.deck = before.deck - reveal - 1]_vars

(* the turn has been dealt after a round in which a player called a bet:    *)
(* bets were on the table before the advance and are cleared after it       *)
C39_Witness ==
    /\ InProgress
    /\ gameState.currentBettingRound = "turn"
    /\ exec.done
    /\ exec.state.currentBettingRound = "flop"
    /\ exec.state.currentBet > 0
    /\ gameState.currentBet = 0
    /\ gameState.communityCards = 4

(* C40: no player ever holds a negative number of chips, and while a hand   *)
(* is in progress a player who has not folded is flagged all-in exactly     *)
(* when the player has no chips left                                        *)
C40_AllInIffNoChips ==
    \A i \in 1..Len(gameState.players) :
        LET p == gameState.players[i]
        IN /\ p.chips >= 0
           /\ (InProgress /\ ~p.isFolded) => (p.isAllIn <=> p.chips = 0)

====
